---- MODULE Spec2Model ----
(***************************************************************************)
(* Background process supervision of soul-cli-ai:                          *)
(*   packages/core/src/services/backgroundProcessService.ts                *)
(*     (BackgroundProcessService: registry, output buffers, consumer       *)
(*      offsets, lifecycle status, delayed eviction)                       *)
(*   packages/core/src/tools/shell.ts       (ShellToolInvocation.execute:  *)
(*      timeout timer, caller signal, foreground run, background launch)   *)
(*   packages/core/src/tools/bash-output.ts (poll)                         *)
(*   packages/core/src/tools/kill-bash.ts   (terminate)                    *)
(*                                                                         *)
(* The runtime is single threaded: every synchronous method is one atomic  *)
(* action; killProcess is split at its only await (the 500 ms grace wait)  *)
(* and execute at its awaits.  The execution engine                        *)
(* (services/shellExecutionService) is described by what the launcher and  *)
(* the supervisor see of it: spawn, output events, cancellation signal and *)
(* the settling of the result promise.                                     *)
(* Strings are sequences of one-character strings, so that split('\n')     *)
(* and RegExp matching are computed, not assumed.                          *)
(***************************************************************************)
EXTENDS Integers, Sequences, FiniteSets, TLC

VARIABLES
  processes,      \* this.processes: id -> BackgroundProcess
  cleanupTimers,  \* this.cleanupTimers: id -> the timer set for it, named by
                  \* its deadline
  timeouts,       \* the runtime's pending eviction timers (setTimeout calls
                  \* neither fired nor cleared), in the order they were set
  results,        \* per launched id, handle.result: "pending" | "settled"
  aborts,         \* per launched id, number of abortController.abort() calls
  kills,          \* the killProcess invocations, in call order
  now,            \* Date.now(), in ms
  ret,            \* return value of the latest getNewOutput / listProcesses
  hist,           \* history (ghost): per id and consumer, what polls delivered
  run,            \* one invocation of ShellToolInvocation.execute (shell.ts)
  allowlist       \* ShellTool.allowlist: the root commands approved for good

vars ==
  <<processes, cleanupTimers, timeouts, results, aborts, kills, now, ret, hist,
    run, allowlist>>

-----------------------------------------------------------------------------
(* Bounds of the model *)

\* number of killProcess invocations
MaxKills == 2
\* lines ever appended to one process by output events, under SpecBuf
MaxTag == 5
\* lines ever appended to one process by output events, under Spec
MaxLifeTag == 1
\* MAX_BUFFER_LINES (10000 in backgroundProcessService.ts:50), scaled down
MAX_BUFFER_LINES == 3
\* lines ever appended to one process by output events, under SpecFrame
MaxFrameTag == 2
\* output events handled by one foreground run, under SpecDisplay
MaxEvents == 3
\* steps of the clock during one foreground run, under SpecDisplay
MaxTicks == 4
\* background launches, under SpecIds
MaxLaunches == 2

(* Program constants *)
\* shell.ts:146, the timeout of a request that gives none
DEFAULT_TIMEOUT_MS == 120000
\* shell.ts:147
MAX_TIMEOUT_MS == 600000
\* shell.ts:36
OUTPUT_UPDATE_INTERVAL_MS == 1000

\* Mutant of CLEANUP_TIMEOUT_MS: the delay in seconds, handed to setTimeout
CLEANUP_TIMEOUT_S == 30 * 60

CLEANUP_TIMEOUT_MS == 30 * 60 * 1000
GRACE_MS == 500

\* ids of the background launches: launches are independent of each other
\* (no method reads or writes a record other than the one of its id)
LaunchIds == {1}
\* ids handed to the service: those of the launches and one never registered
Ids == LaunchIds \cup {2}
\* under SpecFrame: two launches, and an id that was never registered
FrameIds == {1, 2}
UnknownId == Cardinality(FrameIds) + 1
Consumers == {"default", "bash_output_tool"}
ExitCodes == {"0", "null"}
NL == "\n"

\* output chunks delivered by the engine's data events
BigChunk == [i \in 1..(2 * MAX_BUFFER_LINES + 2) |-> IF i % 2 = 1 THEN "a" ELSE NL]
Chunks == { <<"a">>, <<"b", NL>>, <<NL, "a", NL, NL, "b">>, BigChunk }

\* the chunk of the specification of two launches: one line
FrameChunks == { <<"b", NL>> }

\* filter arguments of getNewOutput; <<>> is the absent (or empty) filter
Filters == { <<>>, <<"^", "b">>, <<"(">> }

\* the filters of the polls of two launches: none, and one that throws
FrameFilters == { <<>>, <<"(">> }

\* error.message of a rejected result promise
Messages == { <<"b">> }

\* error.message under SpecSettle: one line, or two lines
ErrorMessages == { <<"b">>, <<"a", NL, "b">> }

\* params.timeout of a request that passed validateToolParamValues: absent,
\* or a number in 1..600000
TimeoutParams == { <<>>, <<1000>> }

\* Commands are sequences of lexemes: words, blanks, separators and the
\* opener of a wrapping shell
Blank == " "
Separators == {";", "&&", "||", "|"}
Wrapper == "bash -c"
\* the root commands the configuration excludes
Blocklist == {"rm"}

\* params.command of the requests
Commands ==
  { <<>>, <<Blank>>, <<";">>, <<"ls">>, <<"rm">>,
    <<"ls", Blank, "-l", "&&", "cat", "|", "ls">>,
    <<"git">>, <<"npm", "|", "git", ";", "npm">>,
    <<Wrapper, "make", "||", "cat">>,
    <<Wrapper, "cat", ";", Blank, "rm">>,
    <<Blank, Wrapper, "ls">> }

\* params.timeout of the requests: absent, or a number
TimeoutRequests == { <<>>, <<-1>>, <<0>>, <<1000>>, <<600000>>, <<600001>> }

\* params.description: absent, two words, sixteen (empty) words
LongDescription == [i \in 1..15 |-> Blank]
Descriptions == { <<>>, <<"l", Blank, "s">>, LongDescription }

\* params.directory: absent, absolute, registered once, unknown, ambiguous
Directories == { <<>>, <<"/", "p">>, <<"p">>, <<"q">>, <<"t">> }

\* config.getWorkspaceContext().getDirectories(), as parent and basename
WorkspaceDirs ==
  { [parent |-> "w", base |-> <<"p">>],
    [parent |-> "w", base |-> <<"t">>],
    [parent |-> "v", base |-> <<"t">>] }

\* the events of the engine: data with the chunk, binary_detected,
\* binary_progress with the bytes received
Events ==
  { [type |-> "data", chunk |-> <<"a">>], [type |-> "data", chunk |-> <<"b", NL>>],
    [type |-> "binary_detected"],
    [type |-> "binary_progress", bytesReceived |-> 2048] }

\* by how much the clock moves in one step
TickSteps == {1, OUTPUT_UPDATE_INTERVAL_MS}

\* values of Math.random().toString(36).substring(2, 8)
Suffixes == {"a", "b"}

\* the answers to a confirmation request
Outcomes == {"ProceedOnce", "ProceedAlways", "Cancel"}

\* the requests handed to the shell tool
Requests ==
  [ command : Commands, timeout : TimeoutRequests, description : Descriptions,
    directory : Directories, run_in_background : BOOLEAN ]

FailPrefix ==
  <<"P","r","o","c","e","s","s"," ","f","a","i","l","e","d",":"," ">>

-----------------------------------------------------------------------------
(* Helpers *)

Max(a, b) == IF a >= b THEN a ELSE b

Remove(f, k) == [x \in (DOMAIN f) \ {k} |-> f[x]]
Put(f, k, v) == [x \in (DOMAIN f) \cup {k} |-> IF x = k THEN v ELSE f[x]]

\* Array.prototype.slice(from) with a 0-based index
Slice(s, from) == SubSeq(s, from + 1, Len(s))

\* String.prototype.split('\n')
RECURSIVE Split(_)
Split(s) ==
  IF s = <<>> THEN << <<>> >>
  ELSE LET rest == Split(Tail(s))
       IN  IF Head(s) = NL
           THEN << <<>> >> \o rest
           ELSE << <<Head(s)>> \o Head(rest) >> \o Tail(rest)

NonEmpty(line) == Len(line) > 0

\* String.prototype.split(sep), for any of the separators seps
RECURSIVE SplitOn(_, _)
SplitOn(s, seps) ==
  IF s = <<>> THEN << <<>> >>
  ELSE LET rest == SplitOn(Tail(s), seps)
       IN  IF Head(s) \in seps
           THEN << <<>> >> \o rest
           ELSE << <<Head(s)>> \o Head(rest) >> \o Tail(rest)

\* a string without its leading blanks
RECURSIVE TrimLeft(_)
TrimLeft(s) == IF s # <<>> /\ Head(s) = Blank THEN TrimLeft(Tail(s)) ELSE s

\* [...new Set(array)]: the first occurrence of every element, in order
RECURSIVE Distinct(_)
Distinct(s) ==
  IF s = <<>> THEN <<>>
  ELSE LET d == Distinct(SubSeq(s, 1, Len(s) - 1))
       IN  IF \E i \in DOMAIN d : d[i] = s[Len(s)] THEN d ELSE Append(d, s[Len(s)])

\* output.split('\n').filter(line => line.length > 0)
Lines(output) == SelectSeq(Split(output), NonEmpty)

\* new RegExp(filter) throws on unbalanced parentheses
RECURSIVE Balanced(_, _)
Balanced(p, depth) ==
  IF p = <<>> THEN depth = 0
  ELSE IF Head(p) = "(" THEN Balanced(Tail(p), depth + 1)
  ELSE IF Head(p) = ")" THEN depth > 0 /\ Balanced(Tail(p), depth - 1)
  ELSE Balanced(Tail(p), depth)

RegexValid(p) == Balanced(p, 0)

\* regex.test(line) for patterns made of literals, ^ and plain groups
RECURSIVE MatchAt(_, _, _, _)
MatchAt(p, i, s, j) ==
  IF i > Len(p) THEN TRUE
  ELSE IF p[i] \in {"(", ")"} THEN MatchAt(p, i + 1, s, j)
  ELSE IF p[i] = "^" THEN j = 0 /\ MatchAt(p, i + 1, s, j)
  ELSE j < Len(s) /\ s[j + 1] = p[i] /\ MatchAt(p, i + 1, s, j + 1)

RegexTest(p, s) == \E j \in 0..Len(s) : MatchAt(p, 1, s, j)

-----------------------------------------------------------------------------
(* The record and its buffer.  A buffer entry is a line together with its  *)
(* append number n (1 for the first line ever appended to the process):    *)
(* the number identifies the line in the properties below.                 *)

LastTag(buf) == IF Len(buf) = 0 THEN 0 ELSE buf[Len(buf)].n

Tagged(lines, from) == [i \in 1..Len(lines) |-> [n |-> from + i, text |-> lines[i]]]

Tags(entries) == [i \in 1..Len(entries) |-> entries[i].n]

Terminal == {"completed", "failed", "terminated"}

-----------------------------------------------------------------------------
(* BackgroundProcessService, as functions of the registry *)

\* Mutant of generateId: an id without its timestamp and random parts
generateIdFixed == CHOOSE id \in LaunchIds : TRUE

\* generateId: `bash_${Date.now()}_${random}`, taken to be an id no earlier
\* launch was given; ids are numbered in launch order
generateId == Cardinality(DOMAIN results) + 1

\* generateId as it is computed: the time in ms and the random suffix
generateIdAt(timestamp, random) == <<"bash", timestamp, random>>

\* registerProcess, lines 87-99: the record and processes.set(id, process)
registerProcess(P, id, pid, command, handle, abortController) ==
  Put(P, id, [ id |-> id,
               pid |-> pid,
               command |-> command,
               status |-> "running",
               exitCode |-> <<>>,
               terminationSignal |-> <<>>,
               outputBuffer |-> <<>>,
               lastReadIndex |-> [c \in {} |-> 0],
               startTime |-> now,
               endTime |-> <<>>,
               handle |-> handle,
               abortController |-> abortController ])

\* Mutant of Overflow: the overflow computed one line short
OverflowOffByOne(length) == length - MAX_BUFFER_LINES - 1

\* addOutput: process.outputBuffer.length - this.MAX_BUFFER_LINES
Overflow(length) == length - MAX_BUFFER_LINES

\* Mutant of RebaseIndex: the read indices are moved back one line too far
RebaseIndexTooFar(index, overflow) == Max(0, index - overflow - 1)

\* Mutant of RebaseIndex: the read indices are not adjusted on eviction
RebaseIndexKept(index, overflow) == index

\* addOutput: Math.max(0, index - overflow)
RebaseIndex(index, overflow) == Max(0, index - overflow)

\* Mutant of Splice: slice(0, overflow) in place of splice: nothing removed
SpliceAsSlice(buffer, overflow) == buffer

\* addOutput: outputBuffer.splice(0, overflow)
Splice(buffer, overflow) == Slice(buffer, overflow)

\* Mutant of addOutput: output for a process that has ended is dropped
addOutputWhileRunning(P, id, output) ==
  IF id \notin DOMAIN P \/ P[id].status # "running" THEN P
  ELSE
    LET process == P[id]
        pushed  == process.outputBuffer
                     \o Tagged(Lines(output), LastTag(process.outputBuffer))
    IN  IF Len(pushed) > MAX_BUFFER_LINES
        THEN Put(P, id,
               [process EXCEPT
                  !.outputBuffer = Splice(pushed, Overflow(Len(pushed))),
                  !.lastReadIndex =
                     [c \in DOMAIN process.lastReadIndex |->
                        RebaseIndex(process.lastReadIndex[c], Overflow(Len(pushed)))]])
        ELSE Put(P, id, [process EXCEPT !.outputBuffer = pushed])

\* Mutant of addOutput: output for an id the registry does not hold starts
\* a record for it
addOutputUpsert(P, id, output) ==
  LET Q == IF id \in DOMAIN P THEN P
           ELSE registerProcess(P, id, id, "cmd", FALSE, FALSE)
      process == Q[id]
      pushed  == process.outputBuffer
                   \o Tagged(Lines(output), LastTag(process.outputBuffer))
  IN  IF Len(pushed) > MAX_BUFFER_LINES
      THEN Put(Q, id,
             [process EXCEPT
                !.outputBuffer = Splice(pushed, Overflow(Len(pushed))),
                !.lastReadIndex =
                   [c \in DOMAIN process.lastReadIndex |->
                      RebaseIndex(process.lastReadIndex[c], Overflow(Len(pushed)))]])
      ELSE Put(Q, id, [process EXCEPT !.outputBuffer = pushed])

\* addOutput
addOutput(P, id, output) ==
  IF id \notin DOMAIN P THEN P
  ELSE
    LET process == P[id]
        lines   == Lines(output)
        pushed  == process.outputBuffer
                     \o Tagged(lines, LastTag(process.outputBuffer))
    IN  IF Len(pushed) > MAX_BUFFER_LINES
        THEN LET overflow == Overflow(Len(pushed))
             IN  Put(P, id,
                   [process EXCEPT
                      !.outputBuffer = Splice(pushed, overflow),
                      !.lastReadIndex =
                         [c \in DOMAIN process.lastReadIndex |->
                            RebaseIndex(process.lastReadIndex[c], overflow)]])
        ELSE Put(P, id, [process EXCEPT !.outputBuffer = pushed])

\* Mutant of LastIndex: the stored read index is ignored
LastIndexZero(process, consumerId) == 0

\* getNewOutput: process.lastReadIndex.get(consumerId) || 0
LastIndex(process, consumerId) ==
  IF consumerId \in DOMAIN process.lastReadIndex
  THEN process.lastReadIndex[consumerId]
  ELSE 0

\* getNewOutput: the filter is given and new RegExp(filter) throws
FilterThrows(filter) == Len(filter) > 0 /\ ~RegexValid(filter)

\* getNewOutput: newLines, after the optional filter
NewLines(process, consumerId, filter) ==
  LET newLines == Slice(process.outputBuffer, LastIndex(process, consumerId))
      Keep(e)  == RegexTest(filter, e.text)
  IN  IF Len(filter) > 0 THEN SelectSeq(newLines, Keep) ELSE newLines

\* getNewOutput: the value returned
getNewOutputResult(P, id, consumerId, filter) ==
  IF id \notin DOMAIN P
  THEN [op |-> "poll", id |-> id, consumerId |-> consumerId, filter |-> filter,
        output |-> <<>>, status |-> "not_found", exitCode |-> <<>>,
        error |-> "No background process found"]
  ELSE IF FilterThrows(filter)
  THEN [op |-> "poll", id |-> id, consumerId |-> consumerId, filter |-> filter,
        output |-> <<>>, status |-> P[id].status, exitCode |-> P[id].exitCode,
        error |-> "Invalid regex filter"]
  ELSE [op |-> "poll", id |-> id, consumerId |-> consumerId, filter |-> filter,
        output |-> NewLines(P[id], consumerId, filter),
        status |-> P[id].status, exitCode |-> P[id].exitCode,
        error |-> ""]

\* Mutant of getNewOutputState: the read index is updated before the filter
\* is compiled, so an invalid filter advances it too
getNewOutputStateEager(P, id, consumerId, filter) ==
  IF id \notin DOMAIN P THEN P
  ELSE Put(P, id,
         [P[id] EXCEPT
            !.lastReadIndex = Put(@, consumerId, Len(P[id].outputBuffer))])

\* Mutant of getNewOutputState: the read index advances by the number of
\* lines returned, not to the end of the buffer
getNewOutputStateByCount(P, id, consumerId, filter) ==
  IF id \notin DOMAIN P THEN P
  ELSE IF FilterThrows(filter) THEN P
  ELSE Put(P, id,
         [P[id] EXCEPT
            !.lastReadIndex =
               Put(@, consumerId,
                   LastIndex(P[id], consumerId)
                     + Len(NewLines(P[id], consumerId, filter)))])

\* Mutant of getNewOutputState: one read index per record, shared by all
\* of its consumers
getNewOutputStateShared(P, id, consumerId, filter) ==
  IF id \notin DOMAIN P THEN P
  ELSE IF FilterThrows(filter) THEN P
  ELSE Put(P, id,
         [P[id] EXCEPT
            !.lastReadIndex =
               [c \in DOMAIN @ \cup {consumerId} |-> Len(P[id].outputBuffer)]])

\* Mutant of getNewOutputState: the lines handed out are removed from the
\* buffer instead of being skipped by the read index
getNewOutputStateDrain(P, id, consumerId, filter) ==
  IF id \notin DOMAIN P THEN P
  ELSE IF FilterThrows(filter) THEN P
  ELSE Put(P, id,
         [P[id] EXCEPT
            !.outputBuffer = <<>>,
            !.lastReadIndex = Put(@, consumerId, 0)])

\* getNewOutput: the registry it leaves
getNewOutputState(P, id, consumerId, filter) ==
  IF id \notin DOMAIN P THEN P
  ELSE IF FilterThrows(filter) THEN P
  ELSE Put(P, id,
         [P[id] EXCEPT
            !.lastReadIndex = Put(@, consumerId, Len(P[id].outputBuffer))])

\* listProcesses
listProcesses(P) ==
  [id \in DOMAIN P |->
     [id |-> P[id].id, pid |-> P[id].pid, command |-> P[id].command,
      status |-> P[id].status, startTime |-> P[id].startTime]]

\* Mutant of markProcessCompleted: the status is not set
markProcessCompletedNoStatus(P, id, exitCode) ==
  IF id \notin DOMAIN P THEN P
  ELSE Put(P, id, [P[id] EXCEPT !.exitCode = <<exitCode>>,
                                !.endTime = <<now>>])

\* markProcessCompleted, without its scheduleCleanup
markProcessCompleted(P, id, exitCode) ==
  IF id \notin DOMAIN P THEN P
  ELSE Put(P, id, [P[id] EXCEPT !.status = "completed",
                                !.exitCode = <<exitCode>>,
                                !.endTime = <<now>>])

\* markProcessTerminated, without its scheduleCleanup
markProcessTerminated(P, id, signal) ==
  IF id \notin DOMAIN P THEN P
  ELSE Put(P, id, [P[id] EXCEPT !.status = "terminated",
                                !.terminationSignal = <<signal>>,
                                !.endTime = <<now>>])

\* Mutant of markProcessFailed: the message is not added to the output
markProcessFailedNoLine(P, id, message) ==
  IF id \notin DOMAIN P THEN P
  ELSE Put(P, id, [P[id] EXCEPT !.status = "failed", !.endTime = <<now>>])

\* markProcessFailed, without its scheduleCleanup
markProcessFailed(P, id, message) ==
  IF id \notin DOMAIN P THEN P
  ELSE addOutput(Put(P, id, [P[id] EXCEPT !.status = "failed",
                                          !.endTime = <<now>>]),
                 id, FailPrefix \o message)

\* scheduleCleanup, line 411: cleanupTimers.set(id, timer)
scheduleCleanup(T, id) == Put(T, id, now + CLEANUP_TIMEOUT_MS)

\* Mutant of cleanupAfterMark: the cleanup is scheduled for an unknown id too
cleanupAfterMarkAlways(T, P, id) == scheduleCleanup(T, id)

\* the mark* methods return before scheduleCleanup when the id is unknown
cleanupAfterMark(T, P, id) == IF id \in DOMAIN P THEN scheduleCleanup(T, id) ELSE T

\* a sequence without its k-th element
Without(Q, k) == SubSeq(Q, 1, k - 1) \o SubSeq(Q, k + 1, Len(Q))

\* Mutant of clearTimeout: the existing timer is left pending
clearTimeoutSkipped(Q, T, id) == Q

\* scheduleCleanup, lines 400-403: clearTimeout(existingTimer), when the
\* map holds a timer for the id; clearing a timer that fired has no effect
clearTimeout(Q, T, id) ==
  IF id \in DOMAIN T
       /\ \E k \in DOMAIN Q : Q[k] = [id |-> id, deadline |-> T[id]]
  THEN Without(Q, CHOOSE k \in DOMAIN Q : Q[k] = [id |-> id, deadline |-> T[id]])
  ELSE Q

\* scheduleCleanup, lines 400-409: the pending timers it leaves
setCleanupTimeout(Q, T, id) ==
  Append(clearTimeout(Q, T, id),
         [id |-> id, deadline |-> now + CLEANUP_TIMEOUT_MS])

\* the pending timers after a mark* method
timeoutsAfterMark(Q, T, P, id) ==
  IF id \in DOMAIN P THEN setCleanupTimeout(Q, T, id) ELSE Q

-----------------------------------------------------------------------------
(* ShellToolInvocation.execute (shell.ts), one invocation:                  *)
(*   pc             idle, spawning (at the await of                         *)
(*                  ShellExecutionService.execute), running (foreground, at *)
(*                  the await of the result promise), done                  *)
(*   signal         signal.aborted of the caller's AbortSignal              *)
(*   listener       abortListener is registered on the caller's signal      *)
(*   timeoutAborted timeoutController.signal.aborted                        *)
(*   timer          <<deadline>> of the pending timeoutId timer, or <<>>    *)
(*   expiry         <<time>> at which the effective timeout has elapsed     *)
(*   engine         none, starting, running, exited                         *)
(*   engineSignal   the signal handed to the engine: the caller's signal,   *)
(*                  timeoutController.signal or processAbortController's    *)
(*   llm            which llmContent was returned                           *)
(*   params         <<this.params>> of the invocation, or of the request   *)
(*                  that was rejected; <<>> before the call                 *)
(*   cumulativeOutput, lastUpdateTime, isBinaryStream                       *)
(*                  the locals of lines 203-205                             *)
(*   updates        (history) the calls of updateOutput: time, text and the *)
(*                  type of the event that caused it                        *)
(*   binarySeen     (history) a binary_detected or binary_progress event    *)
(*                  was delivered                                           *)
(*   events, ticks  (history) events delivered and clock steps taken        *)
(*   isWindows      os.platform() === 'win32'                               *)
(*   updateOutput   the caller passed an updateOutput callback              *)
(*   tempFile       the file at tempFilePath exists                         *)
(*   timerFired, callerFired, abortEvents (history): the timer callback     *)
(*                  ran; the caller's signal fired between the start and    *)
(*                  the settling of the run; number of 'abort' events       *)
(*                  dispatched on timeoutController.signal                  *)

NoRun ==
  [ pc |-> "idle", background |-> FALSE, signal |-> FALSE, listener |-> FALSE,
    timeoutAborted |-> FALSE, timer |-> <<>>, expiry |-> <<>>,
    engine |-> "none", engineSignal |-> "none", llm |-> "", bashId |-> <<>>,
    params |-> <<>>,
    cumulativeOutput |-> <<>>, lastUpdateTime |-> 0, isBinaryStream |-> FALSE,
    updates |-> <<>>, binarySeen |-> FALSE, events |-> 0, ticks |-> 0,
    isWindows |-> FALSE, updateOutput |-> FALSE, tempFile |-> FALSE,
    timerFired |-> FALSE, callerFired |-> FALSE, abortEvents |-> 0 ]

Min(a, b) == IF a <= b THEN a ELSE b

\* Mutant of EffectiveTimeout: Math.max in place of Math.min
EffectiveTimeoutMax(timeout) ==
  Max(IF timeout = <<>> \/ timeout = <<0>> THEN DEFAULT_TIMEOUT_MS ELSE timeout[1],
      MAX_TIMEOUT_MS)

\* lines 146-148: Math.min(params.timeout || 120000, 600000)
EffectiveTimeout(timeout) ==
  Min(IF timeout = <<>> \/ timeout = <<0>> THEN DEFAULT_TIMEOUT_MS ELSE timeout[1],
      MAX_TIMEOUT_MS)

\* line 155: if (!this.params.run_in_background) setTimeout(...)
ArmsTimer(background) == ~background

\* line 162: signal.aborted ? signal : timeoutController.signal
CombinedSignal(signalAborted) == IF signalAborted THEN "signal" ELSE "timeout"

\* Mutant of AttachesListener: the condition inverted
AttachesListenerInverted(signalAborted) == signalAborted

\* line 168: if (!signal.aborted) signal.addEventListener('abort', ...)
AttachesListener(signalAborted) == ~signalAborted

\* Mutant of CancelledBeforeStart: the early return is missing
CancelledBeforeStartNever(signalAborted) == FALSE

\* line 174: if (signal.aborted) return the 'before it could start' result
CancelledBeforeStart(signalAborted) == signalAborted

\* Mutant of EngineSignal: the foreground engine gets the caller's signal
EngineSignalCaller(background, combinedSignal) ==
  IF background THEN "process" ELSE "signal"

\* Mutant of EngineSignal: the background engine gets combinedSignal too
EngineSignalCombined(background, combinedSignal) == combinedSignal

\* lines 252 and 328: the signal passed to ShellExecutionService.execute
EngineSignal(background, combinedSignal) ==
  IF background THEN "process" ELSE combinedSignal

\* Mutant of TimedOut: the caller's signal is not looked at
TimedOutAnyAbort(timeoutAborted, signalAborted) == timeoutAborted

\* line 339: timeoutController.signal.aborted && !signal.aborted
TimedOut(timeoutAborted, signalAborted) == timeoutAborted /\ ~signalAborted

\* timeoutController.abort(): the first call sets aborted and dispatches
\* one 'abort' event; later calls do nothing
AbortTimeoutController(r) ==
  IF r.timeoutAborted THEN r
  ELSE [r EXCEPT !.timeoutAborted = TRUE, !.abortEvents = @ + 1]

\* the engine's cancellation signal is signalled
EngineSignalAborted(r, A) ==
  IF r.engineSignal = "signal" THEN r.signal
  ELSE IF r.engineSignal = "timeout" THEN r.timeoutAborted
  ELSE IF r.engineSignal = "process"
  THEN r.bashId # <<>> /\ r.bashId[1] \in DOMAIN A /\ A[r.bashId[1]] > 0
  ELSE FALSE

\* ExecutionEngine: cancellation sets aborted=true on the result, which
\* resolves and is never rejected
ResultAborted(r, A) == EngineSignalAborted(r, A)

\* ExecutionEngine: the events of an execution are I/O callbacks that
\* follow the spawn; the pid is available synchronously once the process
\* is spawned, which is when the awaiting launcher resumes and registers
EngineEmits(id) == id \in DOMAIN results

\* Mutant of LaunchRegister: the record is not created when the launch
\* resumes
LaunchRegisterDeferred(P, bashId) == P

\* lines 259-265: service.registerProcess(bashId, pid, command, handle,
\* processAbortController)
LaunchRegister(P, bashId) == registerProcess(P, bashId, bashId, "cmd", TRUE, TRUE)

\* Mutant of Throttled: an update is let through when exactly the interval
\* has passed
ThrottledInclusive(time, lastUpdateTime) ==
  time - lastUpdateTime >= OUTPUT_UPDATE_INTERVAL_MS

\* lines 299 and 314: Date.now() - lastUpdateTime > OUTPUT_UPDATE_INTERVAL_MS
Throttled(time, lastUpdateTime) ==
  time - lastUpdateTime > OUTPUT_UPDATE_INTERVAL_MS

\* Mutant of SkipsData: data is interpreted whatever came before
SkipsDataNever(isBinaryStream) == FALSE

\* line 296: if (isBinaryStream) break
SkipsData(isBinaryStream) == isBinaryStream

\* lines 286-327, the foreground output callback at the given time
HandleEvent(r, event, time) ==
  IF ~r.updateOutput THEN r
  ELSE
    LET skipped == event.type = "data" /\ SkipsData(r.isBinaryStream)
        currentDisplayOutput ==
          IF event.type = "data"
          THEN IF skipped THEN <<>> ELSE event.chunk
          ELSE IF event.type = "binary_detected"
          THEN <<"[Binary output detected. Halting stream...]">>
          ELSE <<"[Receiving binary output... ", event.bytesReceived, " received]">>
        shouldUpdate ==
          IF event.type = "data"
          THEN ~skipped /\ Throttled(time, r.lastUpdateTime)
          ELSE IF event.type = "binary_detected" THEN TRUE
          ELSE Throttled(time, r.lastUpdateTime)
        handled ==
          [r EXCEPT
             !.cumulativeOutput =
                IF event.type = "data" /\ ~skipped THEN event.chunk ELSE @,
             !.isBinaryStream = @ \/ event.type # "data"]
    IN  IF shouldUpdate
        THEN [handled EXCEPT
                !.updates = Append(@, [at |-> time, text |-> currentDisplayOutput,
                                       type |-> event.type]),
                !.lastUpdateTime = time]
        ELSE handled

\* lines 339-376: which llmContent the foreground run returns
Narrative(r, resultAborted) ==
  IF TimedOut(r.timeoutAborted, r.signal) THEN "timeout"
  ELSE IF resultAborted THEN "cancelled"
  ELSE "normal"

-----------------------------------------------------------------------------
(* CommandPolicy (utils/shell-utils) and ShellTool.validateToolParamValues *)

\* the first lexeme of every segment that has one
RECURSIVE FirstTokens(_)
FirstTokens(segments) ==
  IF segments = <<>> THEN <<>>
  ELSE LET t == TrimLeft(Head(segments))
       IN  (IF t = <<>> THEN <<>> ELSE <<Head(t)>>) \o FirstTokens(Tail(segments))

\* extractRootCommands: splits on the shell separators and takes the first
\* token of each segment (duplicates are left to the caller)
getCommandRoots(command) == FirstTokens(SplitOn(command, Separators))

\* the command inside a wrapping shell, or the command itself
stripShellWrapper(command) ==
  LET t == TrimLeft(command)
  IN  IF t # <<>> /\ Head(t) = Wrapper THEN Tail(t) ELSE t

\* isAllowed: not allowed, with a reason, for a denylisted root command
isCommandAllowed(command) ==
  LET roots == getCommandRoots(stripShellWrapper(command))
  IN  IF \E i \in DOMAIN roots : roots[i] \in Blocklist
      THEN [allowed |-> FALSE, reason |-> "Command is blocked by configuration"]
      ELSE [allowed |-> TRUE, reason |-> ""]

\* Mutant of CommandsToConfirm: the allowlist is not consulted
CommandsToConfirmAll(rootCommands, approved) == rootCommands

\* shouldConfirmExecute, lines 106-108:
\* rootCommands.filter((command) => !this.allowlist.has(command))
CommandsToConfirm(rootCommands, approved) ==
  LET NotApproved(command) == command \notin approved
  IN  SelectSeq(rootCommands, NotApproved)

\* shouldConfirmExecute: false (<<>>), or the confirmation details with
\* the commands to confirm
shouldConfirmExecute(command, approved) ==
  LET stripped == stripShellWrapper(command)
      rootCommands == Distinct(getCommandRoots(stripped))
      commandsToConfirm == CommandsToConfirm(rootCommands, approved)
  IN  IF Len(commandsToConfirm) = 0 THEN <<>> ELSE <<commandsToConfirm>>

\* lines 568-577
CommandCheckError(command) ==
  LET commandCheck == isCommandAllowed(command)
  IN  IF ~commandCheck.allowed
      THEN IF commandCheck.reason = "" THEN <<"Command is not allowed">>
           ELSE <<commandCheck.reason>>
      ELSE <<>>

\* lines 578-580: !params.command.trim()
EmptyCommandError(command) ==
  IF TrimLeft(command) = <<>> THEN <<"Command cannot be empty.">> ELSE <<>>

\* lines 581-583
NoRootError(command) ==
  IF Len(getCommandRoots(command)) = 0
  THEN <<"Could not identify command root to obtain permission from user.">>
  ELSE <<>>

\* Mutant of TimeoutError: the lower limit tested with < in place of <=
TimeoutErrorZeroPasses(timeout) ==
  IF timeout # <<>> /\ timeout[1] < 0
  THEN <<"Timeout must be a positive number.">>
  ELSE IF timeout # <<>> /\ timeout[1] > 600000
  THEN <<"Timeout cannot exceed 600000ms (10 minutes).">>
  ELSE <<>>

\* lines 585-593
TimeoutError(timeout) ==
  IF timeout # <<>> /\ timeout[1] <= 0
  THEN <<"Timeout must be a positive number.">>
  ELSE IF timeout # <<>> /\ timeout[1] > 600000
  THEN <<"Timeout cannot exceed 600000ms (10 minutes).">>
  ELSE <<>>

\* lines 595-598: params.description.split(' ').length > 15
DescriptionError(description) ==
  IF Len(description) > 0 /\ Len(SplitOn(description, {Blank})) > 15
  THEN <<"Description should be 5-10 words for clarity.">>
  ELSE <<>>

\* lines 600-616
DirectoryError(directory) ==
  IF Len(directory) = 0 THEN <<>>
  ELSE IF Head(directory) = "/" THEN <<"Directory cannot be absolute.">>
  ELSE LET matchingDirs == { dir \in WorkspaceDirs : dir.base = directory }
       IN  IF Cardinality(matchingDirs) = 0
           THEN <<"Directory is not a registered workspace directory.">>
           ELSE IF Cardinality(matchingDirs) > 1
           THEN <<"Directory name is ambiguous.">>
           ELSE <<>>

\* the first of the errors, or none
RECURSIVE FirstError(_)
FirstError(errors) ==
  IF errors = <<>> THEN <<>>
  ELSE IF Head(errors) # <<>> THEN Head(errors)
  ELSE FirstError(Tail(errors))

\* validateToolParamValues: <<message>>, or <<>> for null
validateToolParamValues(params) ==
  FirstError(<< CommandCheckError(params.command),
                EmptyCommandError(params.command),
                NoRootError(params.command),
                TimeoutError(params.timeout),
                DescriptionError(params.description),
                DirectoryError(params.directory) >>)

-----------------------------------------------------------------------------
(* History kept beside the registry, per record and consumer that polled:  *)
(*   polledAt  - append number of the newest line at its last poll         *)
(*   gapless   - every poll so far returned exactly the lines appended     *)
(*               since the poll before it (the first: since the start),    *)
(*               so the batches concatenate to lines 1..polledAt           *)
(*   missed    - an eviction since its last poll removed an unread line    *)
(*   filtered  - one of its polls carried a filter                         *)

Interval(from, to) == [i \in 1..(to - from + 1) |-> from + i - 1]

HistAfterAppend(H, P, id, output) ==
  IF id \notin DOMAIN P THEN H
  ELSE
    LET evicted ==
          Len(P[id].outputBuffer) + Len(Lines(output)) - MAX_BUFFER_LINES
    IN  Put(H, id,
          [c \in DOMAIN H[id] |->
             [H[id][c] EXCEPT
                !.missed = @ \/ evicted > P[id].lastReadIndex[c]]])

HistAfterPoll(H, P, id, consumerId, filter, result) ==
  IF result.error # "" THEN H
  ELSE
    LET old == IF consumerId \in DOMAIN H[id]
               THEN H[id][consumerId]
               ELSE [polledAt |-> 0, gapless |-> TRUE,
                     missed |-> FALSE, filtered |-> FALSE]
        newest == LastTag(P[id].outputBuffer)
    IN  Put(H, id,
          Put(H[id], consumerId,
            [polledAt  |-> newest,
             gapless   |-> old.gapless
                           /\ Tags(result.output) = Interval(old.polledAt + 1, newest),
             missed    |-> FALSE,
             filtered  |-> old.filtered \/ Len(filter) > 0]))

-----
(* Timers.  A timer never fires before its deadline, and pending timers    *)
(* fire in deadline order: the grace timer of a killProcess call on a      *)
(* running record is always due before the eviction timer of that record,  *)
(* which is armed later and runs 30 minutes.                               *)

GraceDeadlines == { kills[k].deadline : k \in { j \in DOMAIN kills : kills[j].pc = "grace" } }
CleanupDeadlines == { timeouts[k].deadline : k \in DOMAIN timeouts }
RunDeadlines == { run.timer[k] : k \in DOMAIN run.timer }
PendingDeadlines == GraceDeadlines \cup CleanupDeadlines \cup RunDeadlines

TimerDue(deadline) ==
  deadline <= now /\ \A d \in PendingDeadlines : deadline <= d

-----------------------------------------------------------------------------
Init ==
  /\ processes = [i \in {} |-> 0]
  /\ cleanupTimers = [i \in {} |-> 0]
  /\ timeouts = <<>>
  /\ results = [i \in {} |-> 0]
  /\ aborts = [i \in {} |-> 0]
  /\ kills = <<>>
  /\ now = 0
  /\ ret = [op |-> "none"]
  /\ hist = [i \in {} |-> 0]
  /\ run = NoRun
  /\ allowlist = {}

\* shell.ts, background branch, as the supervisor sees a launch: generateId,
\* ShellExecutionService.execute, registerProcess with the result promise
\* and the process's AbortController (Invoke and SpawnBackground below are
\* the same launch with the caller's signal and the await in view)
LaunchWithin(ids) ==
  LET bashId == generateId
  IN  /\ bashId \in ids
      /\ processes' = LaunchRegister(processes, bashId)
      /\ results' = Put(results, bashId, "pending")
      /\ aborts' = Put(aborts, bashId, 0)
      /\ hist' = Put(hist, bashId, [c \in {} |-> 0])
      /\ ret' = [op |-> "launch", id |-> bashId]
      /\ UNCHANGED <<allowlist, cleanupTimers, timeouts, kills, now, run>>

Launch == LaunchWithin(LaunchIds)

\* a background launch with its id computed from the clock and the random
\* suffix; the launches are numbered, and results holds for each its id
\* and whether its result promise is pending; the pid is the number
LaunchAt(random) ==
  /\ Cardinality(DOMAIN results) < MaxLaunches
  /\ LET bashId == generateIdAt(now, random)
         n == Cardinality(DOMAIN results) + 1
     IN  /\ processes' = registerProcess(processes, bashId, n, "cmd", TRUE, TRUE)
         /\ results' = Put(results, n, [id |-> bashId, state |-> "pending"])
         /\ hist' = Put(hist, bashId, [c \in {} |-> 0])
         /\ ret' = [op |-> "launch", id |-> bashId]
  /\ UNCHANGED <<allowlist, cleanupTimers, timeouts, aborts, kills, now, run>>

\* registerProcess, lines 103-106, for the n-th launch: its result promise
\* resolves and the callback marks the record of the id it was given
SettleLaunch(n, exitCode) ==
  /\ n \in DOMAIN results
  /\ results[n].state = "pending"
  /\ results' = [results EXCEPT ![n].state = "settled"]
  /\ processes' = markProcessCompleted(processes, results[n].id, exitCode)
  /\ cleanupTimers' = cleanupAfterMark(cleanupTimers, processes, results[n].id)
  /\ timeouts' = timeoutsAfterMark(timeouts, cleanupTimers, processes, results[n].id)
  /\ ret' = [op |-> "none"]
  /\ UNCHANGED <<allowlist, aborts, kills, now, hist, run>>

\* shell.ts, background output callback: service.addOutput(bashId, chunk)
AddOutput(id, output, maxTag) ==
  /\ EngineEmits(id)
  /\ id \in DOMAIN processes =>
       LastTag(processes[id].outputBuffer) + Len(Lines(output)) <= maxTag
  /\ processes' = addOutput(processes, id, output)
  /\ hist' = HistAfterAppend(hist, processes, id, output)
  /\ ret' = [op |-> "none"]
  /\ UNCHANGED <<allowlist, cleanupTimers, timeouts, results, aborts, kills, now, run>>

\* bash-output.ts: service.getNewOutput(bash_id, consumer, filter)
GetNewOutput(id, consumerId, filter) ==
  /\ ret' = getNewOutputResult(processes, id, consumerId, filter)
  /\ processes' = getNewOutputState(processes, id, consumerId, filter)
  /\ hist' = HistAfterPoll(hist, processes, id, consumerId, filter, ret')
  /\ UNCHANGED <<allowlist, cleanupTimers, timeouts, results, aborts, kills, now, run>>

\* listProcesses
ListProcesses ==
  /\ ret' = [op |-> "list", list |-> listProcesses(processes)]
  /\ UNCHANGED <<allowlist, processes, cleanupTimers, timeouts, results, aborts, kills, now, hist, run>>

\* registerProcess, lines 103-106: handle.result resolved with an exit code
ResolveResult(id, exitCode) ==
  /\ id \in DOMAIN results
  /\ results[id] = "pending"
  /\ results' = [results EXCEPT ![id] = "settled"]
  /\ processes' = markProcessCompleted(processes, id, exitCode)
  /\ cleanupTimers' = cleanupAfterMark(cleanupTimers, processes, id)
  /\ timeouts' = timeoutsAfterMark(timeouts, cleanupTimers, processes, id)
  /\ ret' = [op |-> "none"]
  /\ UNCHANGED <<allowlist, aborts, kills, now, hist, run>>

\* registerProcess, lines 107-109: handle.result rejected with an error
RejectResult(id, message) ==
  /\ id \in DOMAIN results
  /\ results[id] = "pending"
  /\ results' = [results EXCEPT ![id] = "settled"]
  /\ processes' = markProcessFailed(processes, id, message)
  /\ cleanupTimers' = cleanupAfterMark(cleanupTimers, processes, id)
  /\ timeouts' = timeoutsAfterMark(timeouts, cleanupTimers, processes, id)
  /\ hist' = HistAfterAppend(hist, processes, id, FailPrefix \o message)
  /\ ret' = [op |-> "none"]
  /\ UNCHANGED <<allowlist, aborts, kills, now, run>>

\* Mutant of AlreadyEndedMessage: the check for a failed process is missing
AlreadyEndedMessageNoFailed(status) ==
  IF status = "completed" THEN "Process has already completed"
  ELSE IF status = "terminated" THEN "was already terminated"
  ELSE ""

\* killProcess, lines 209-233: the message of the early return for a
\* process that has ended, "" when there is none
AlreadyEndedMessage(status) ==
  IF status = "completed" THEN "Process has already completed"
  ELSE IF status = "failed" THEN "has already failed"
  ELSE IF status = "terminated" THEN "was already terminated"
  ELSE ""

\* killProcess up to its await (or to its return when it does not wait)
KillStart(id) ==
  /\ Len(kills) < MaxKills
  /\ LET call == [id |-> id, pc |-> "done", deadline |-> 0, success |-> FALSE,
                  message |-> "", method |-> "",
                  after |-> { k \in DOMAIN kills : kills[k].pc = "done" }]
     IN
     IF id \notin DOMAIN processes THEN
       /\ kills' = Append(kills, [call EXCEPT !.message = "No background process found"])
       /\ UNCHANGED <<processes, cleanupTimers, timeouts, aborts>>
     ELSE IF AlreadyEndedMessage(processes[id].status) # "" THEN
       /\ kills' = Append(kills, [call EXCEPT !.message =
                                    AlreadyEndedMessage(processes[id].status)])
       /\ UNCHANGED <<processes, cleanupTimers, timeouts, aborts>>
     ELSE IF processes[id].abortController THEN
       /\ aborts' = [aborts EXCEPT ![id] = @ + 1]
       /\ kills' = Append(kills, [call EXCEPT !.pc = "grace",
                                              !.deadline = now + GRACE_MS])
       /\ UNCHANGED <<processes, cleanupTimers, timeouts>>
     ELSE
       /\ processes' = markProcessTerminated(processes, id, "SIGTERM")
       /\ cleanupTimers' = cleanupAfterMark(cleanupTimers, processes, id)
       /\ timeouts' = timeoutsAfterMark(timeouts, cleanupTimers, processes, id)
       /\ kills' = Append(kills, [call EXCEPT !.success = TRUE,
                                   !.message = "Process terminated successfully",
                                   !.method = "SIGTERM"])
       /\ UNCHANGED aborts
  /\ ret' = [op |-> "none"]
  /\ UNCHANGED <<allowlist, results, now, hist, run>>

\* Mutant of TerminationMethod: the status after the wait is not looked at
TerminationMethodForced(P, id) == "SIGKILL (forced)"

\* killProcess: the method reported after the grace wait
TerminationMethod(P, id) ==
  IF id \in DOMAIN P /\ P[id].status = "running"
  THEN "SIGKILL (forced)"
  ELSE "SIGTERM"

\* killProcess after the 500 ms wait: lines 253-274
KillFinish(k) ==
  /\ k \in DOMAIN kills
  /\ kills[k].pc = "grace"
  /\ TimerDue(kills[k].deadline)
  /\ LET id == kills[k].id
         terminationMethod == TerminationMethod(processes, id)
     IN  /\ processes' = markProcessTerminated(processes, id, terminationMethod)
         /\ cleanupTimers' = cleanupAfterMark(cleanupTimers, processes, id)
         /\ timeouts' = timeoutsAfterMark(timeouts, cleanupTimers, processes, id)
         /\ kills' = [kills EXCEPT ![k] =
                        [@ EXCEPT !.pc = "done", !.success = TRUE,
                                  !.message = "Process terminated successfully",
                                  !.method = terminationMethod]]
  /\ ret' = [op |-> "none"]
  /\ UNCHANGED <<allowlist, results, aborts, now, hist, run>>

\* Mutant of CleanupFire: the callback deletes the timer entry only
CleanupFireEntryOnly(id) ==
  /\ \E k \in DOMAIN timeouts :
       /\ timeouts[k].id = id
       /\ TimerDue(timeouts[k].deadline)
       /\ timeouts' = Without(timeouts, k)
  /\ cleanupTimers' = Remove(cleanupTimers, id)
  /\ ret' = [op |-> "none"]
  /\ UNCHANGED <<allowlist, processes, results, aborts, kills, now, hist, run>>

\* scheduleCleanup's timer callback
CleanupFire(id) ==
  /\ \E k \in DOMAIN timeouts :
       /\ timeouts[k].id = id
       /\ TimerDue(timeouts[k].deadline)
       /\ timeouts' = Without(timeouts, k)
  /\ processes' = Remove(processes, id)
  /\ cleanupTimers' = Remove(cleanupTimers, id)
  /\ hist' = Remove(hist, id)
  /\ ret' = [op |-> "none"]
  /\ UNCHANGED <<allowlist, results, aborts, kills, now, run>>

\* time passes, up to the next timer deadline
AdvanceTime ==
  /\ PendingDeadlines # {}
  /\ \A d \in PendingDeadlines : d > now
  /\ now' = CHOOSE d \in PendingDeadlines : \A e \in PendingDeadlines : d <= e
  /\ ret' = [op |-> "none"]
  /\ UNCHANGED <<allowlist, processes, cleanupTimers, timeouts, results, aborts, kills, hist, run>>

\* execute, lines 134-218 (background) or 134-283 (foreground): up to the
\* early return or to the await of ShellExecutionService.execute
InvokeWith(isWindows, updateOutput, params) ==
  /\ run.pc = "idle"
  /\ LET background == params.run_in_background
         timeout == params.timeout
         effectiveTimeout == EffectiveTimeout(timeout)
         combinedSignal == CombinedSignal(run.signal)
         set == [run EXCEPT
                   !.params = <<params>>,
                   !.lastUpdateTime = now,
                   !.isWindows = isWindows,
                   !.updateOutput = updateOutput,
                   !.background = background,
                   !.expiry = <<now + effectiveTimeout>>,
                   !.timer = IF ArmsTimer(background)
                             THEN <<now + effectiveTimeout>> ELSE <<>>,
                   !.listener = AttachesListener(run.signal)]
     IN  IF CancelledBeforeStart(run.signal)
         THEN run' = [set EXCEPT !.pc = "done", !.llm = "before_start"]
         ELSE run' = [set EXCEPT
                        !.pc = "spawning",
                        !.engine = "starting",
                        !.engineSignal = EngineSignal(background, combinedSignal)]
  /\ ret' = [op |-> "none"]
  /\ UNCHANGED <<allowlist, processes, cleanupTimers, timeouts, results, aborts, kills, now, hist>>

\* execute on a platform with pgrep, called with an updateOutput callback
Invoke(background, timeout) ==
  InvokeWith(FALSE, TRUE,
             [command |-> <<"ls">>, timeout |-> timeout, description |-> <<>>,
              directory |-> <<>>, run_in_background |-> background])

\* the tool layer: a request is validated, and only a request without a
\* validation error becomes an invocation (createInvocation) that is
\* executed; the error of a rejected one is returned, not thrown
Call(params) ==
  /\ run.pc = "idle"
  /\ LET error == validateToolParamValues(params)
     IN  IF error # <<>>
         THEN /\ run' = [run EXCEPT !.pc = "rejected", !.params = <<params>>,
                                    !.llm = error[1]]
              /\ ret' = [op |-> "none"]
              /\ UNCHANGED <<allowlist, processes, cleanupTimers, timeouts, results, aborts,
                             kills, now, hist>>
         ELSE InvokeWith(FALSE, TRUE, params)

\* shouldConfirmExecute of an invocation for the command
ShouldConfirmExecute(command) ==
  /\ ret' = [op |-> "confirm", command |-> command,
             details |-> shouldConfirmExecute(command, allowlist)]
  /\ UNCHANGED <<processes, cleanupTimers, timeouts, results, aborts, kills,
                 now, hist, run, allowlist>>

\* Mutant of OnConfirm: every answer that proceeds extends the allowlist
OnConfirmAnyProceed(outcome) ==
  /\ ret.op = "confirm"
  /\ ret.details # <<>>
  /\ allowlist' =
       IF outcome \in {"ProceedAlways", "ProceedOnce"}
       THEN allowlist \cup { ret.details[1][i] : i \in DOMAIN ret.details[1] }
       ELSE allowlist
  /\ ret' = [op |-> "confirmed", outcome |-> outcome]
  /\ UNCHANGED <<processes, cleanupTimers, timeouts, results, aborts, kills,
                 now, hist, run>>

\* onConfirm of the confirmation details returned last, lines 119-123
OnConfirm(outcome) ==
  /\ ret.op = "confirm"
  /\ ret.details # <<>>
  /\ allowlist' =
       IF outcome = "ProceedAlways"
       THEN allowlist \cup { ret.details[1][i] : i \in DOMAIN ret.details[1] }
       ELSE allowlist
  /\ ret' = [op |-> "confirmed", outcome |-> outcome]
  /\ UNCHANGED <<processes, cleanupTimers, timeouts, results, aborts, kills,
                 now, hist, run>>

\* the caller's AbortSignal fires; abortListener, when registered, runs
CallerCancel ==
  /\ ~run.signal
  /\ LET fired == [run EXCEPT
                     !.signal = TRUE,
                     !.callerFired = @ \/ run.pc \in {"spawning", "running"}]
     IN  run' = IF run.listener THEN AbortTimeoutController(fired) ELSE fired
  /\ ret' = [op |-> "none"]
  /\ UNCHANGED <<allowlist, processes, cleanupTimers, timeouts, results, aborts, kills, now, hist>>

\* the callback of the timeoutId timer, lines 156-158
TimeoutFire ==
  /\ run.timer # <<>>
  /\ TimerDue(run.timer[1])
  /\ run' = AbortTimeoutController([run EXCEPT !.timer = <<>>, !.timerFired = TRUE])
  /\ ret' = [op |-> "none"]
  /\ UNCHANGED <<allowlist, processes, cleanupTimers, timeouts, results, aborts, kills, now, hist>>

\* foreground: the await of line 283 resumes with the result promise
SpawnForeground ==
  /\ run.pc = "spawning"
  /\ ~run.background
  /\ run' = [run EXCEPT !.pc = "running", !.engine = "running"]
  /\ ret' = [op |-> "none"]
  /\ UNCHANGED <<allowlist, processes, cleanupTimers, timeouts, results, aborts, kills, now, hist>>

\* line 195: the wrapped command has run and the shell writes the pids of
\* its process group to tempFilePath (`pgrep -g 0 >${tempFilePath}`), the
\* last thing it does before it exits; the shell runs beside the launcher
\* from the spawn on
WrapperWrite ==
  /\ ~run.isWindows
  /\ run.engine \in {"starting", "running"}
  /\ run.bashId # <<>> => results[run.bashId[1]] = "pending"
  /\ ~run.tempFile
  /\ run' = [run EXCEPT !.tempFile = TRUE]
  /\ ret' = [op |-> "none"]
  /\ UNCHANGED <<allowlist, processes, cleanupTimers, timeouts, results, aborts, kills, now, hist>>

\* background: the await of line 218 resumes with pid and result promise;
\* lines 259-279: registerProcess, clearTimeout, removeEventListener,
\* unlinkSync(tempFilePath) when it exists, return (and the finally block)
SpawnBackground ==
  /\ run.pc = "spawning"
  /\ run.background
  /\ LET bashId == generateId
     IN  /\ bashId \in LaunchIds
         /\ processes' = LaunchRegister(processes, bashId)
         /\ results' = Put(results, bashId, "pending")
         /\ aborts' = Put(aborts, bashId, 0)
         /\ hist' = Put(hist, bashId, [c \in {} |-> 0])
         /\ run' = [run EXCEPT !.pc = "done", !.engine = "running",
                               !.bashId = <<bashId>>, !.timer = <<>>,
                               !.listener = FALSE, !.tempFile = FALSE,
                               !.llm = "background_started"]
         /\ ret' = [op |-> "launch", id |-> bashId]
  /\ UNCHANGED <<allowlist, cleanupTimers, timeouts, kills, now>>

\* foreground: the result promise resolves and lines 334-447 run: the timer
\* is cleared, the listener removed, the result assembled and, in the
\* finally block, the file at tempFilePath removed
SettleForeground ==
  /\ run.pc = "running"
  /\ run' = [run EXCEPT !.pc = "done", !.engine = "exited",
                        !.timer = <<>>, !.listener = FALSE,
                        !.tempFile = FALSE,
                        !.llm = Narrative(run, ResultAborted(run, aborts))]
  /\ ret' = [op |-> "none"]
  /\ UNCHANGED <<allowlist, processes, cleanupTimers, timeouts, results, aborts, kills, now, hist>>

\* the engine delivers an output event of a foreground run to the callback
\* of lines 286-327
Event(event) ==
  /\ run.pc = "running"
  /\ run.events < MaxEvents
  /\ run' = [HandleEvent(run, event, now) EXCEPT
               !.events = @ + 1,
               !.binarySeen = @ \/ event.type # "data"]
  /\ ret' = [op |-> "none"]
  /\ UNCHANGED <<allowlist, processes, cleanupTimers, timeouts, results, aborts, kills, now, hist>>

\* Date.now() moves on during a run, short of the next timer
Tick(d) ==
  /\ run.pc \in {"spawning", "running"}
  /\ run.ticks < MaxTicks
  /\ \A deadline \in PendingDeadlines : now + d <= deadline
  /\ now' = now + d
  /\ run' = [run EXCEPT !.ticks = @ + 1]
  /\ ret' = [op |-> "none"]
  /\ UNCHANGED <<allowlist, processes, cleanupTimers, timeouts, results, aborts, kills, hist>>

\* lines 439-447: an exception inside the try block (the engine's execute
\* rejects, or reading the pid file or summarizing the settled result
\* throws): catch clears the timer and removes the listener and rethrows,
\* finally removes the file at tempFilePath
Throw ==
  /\ run.pc \in {"spawning", "running"}
  /\ run' = [run EXCEPT !.pc = "done",
                        !.engine = IF run.pc = "running" THEN "exited" ELSE "none",
                        !.timer = <<>>, !.listener = FALSE,
                        !.tempFile = FALSE, !.llm = "thrown"]
  /\ ret' = [op |-> "none"]
  /\ UNCHANGED <<allowlist, processes, cleanupTimers, timeouts, results, aborts, kills, now, hist>>

\* time passes, with no timer due, to the moment the effective timeout of
\* the request has elapsed
Elapse ==
  /\ run.expiry # <<>>
  /\ now < run.expiry[1]
  /\ \A d \in PendingDeadlines : d >= run.expiry[1]
  /\ now' = run.expiry[1]
  /\ ret' = [op |-> "none"]
  /\ UNCHANGED <<allowlist, processes, cleanupTimers, timeouts, results, aborts, kills, hist, run>>

\* the lifecycle: every operation, with little output and the one consumer
\* id the poll tool passes (bash-output.ts: 'bash_output_tool')
Next ==
  \/ Launch
  \/ \E id \in Ids, output \in Chunks : AddOutput(id, output, MaxLifeTag)
  \/ \E id \in Ids, f \in Filters : GetNewOutput(id, "bash_output_tool", f)
  \/ ListProcesses
  \/ \E id \in Ids, e \in ExitCodes : ResolveResult(id, e)
  \/ \E id \in Ids, m \in Messages : RejectResult(id, m)
  \/ \E id \in Ids : KillStart(id)
  \/ \E k \in 1..MaxKills : KillFinish(k)
  \/ \E id \in Ids : CleanupFire(id)
  \/ AdvanceTime

Spec == Init /\ [][Next]_vars

\* the output buffer and the consumer offsets: enough output to evict
NextBuf ==
  \/ Launch
  \/ \E id \in Ids, output \in Chunks : AddOutput(id, output, MaxTag)
  \/ \E id \in Ids, c \in Consumers, f \in Filters : GetNewOutput(id, c, f)
  \/ \E id \in Ids, m \in Messages : RejectResult(id, m)

SpecBuf == Init /\ [][NextBuf]_vars

\* two launches side by side, polled by two consumers: what a poll of one
\* record by one consumer does to the other record and the other consumer
NextFrame ==
  \/ LaunchWithin(FrameIds)
  \/ \E id \in FrameIds, output \in FrameChunks : AddOutput(id, output, MaxFrameTag)
  \/ \E id \in FrameIds \cup {UnknownId}, c \in Consumers, f \in FrameFilters :
       GetNewOutput(id, c, f)

SpecFrame == Init /\ [][NextFrame]_vars

\* one invocation of the shell tool, foreground or background, with the
\* caller's signal, the timers and, for a background launch, its output
\* events, its settling and terminate
NextRun ==
  \/ \E background \in BOOLEAN, timeout \in TimeoutParams : Invoke(background, timeout)
  \/ CallerCancel
  \/ TimeoutFire
  \/ SpawnForeground
  \/ SpawnBackground
  \/ SettleForeground
  \/ Elapse
  \/ \E id \in Ids, output \in Chunks : AddOutput(id, output, MaxLifeTag)
  \/ \E id \in Ids, e \in ExitCodes : ResolveResult(id, e)
  \/ \E id \in Ids, m \in Messages : RejectResult(id, m)
  \/ \E id \in Ids : KillStart(id)
  \/ \E k \in 1..MaxKills : KillFinish(k)
  \/ \E id \in Ids : CleanupFire(id)
  \/ AdvanceTime

SpecRun == Init /\ [][NextRun]_vars

\* one invocation of the shell tool and the side-channel file of its
\* wrapped command, on either kind of platform
NextTemp ==
  \/ \E isWindows \in BOOLEAN, background \in BOOLEAN, timeout \in TimeoutParams :
       InvokeWith(isWindows, TRUE,
                  [command |-> <<"ls">>, timeout |-> timeout, description |-> <<>>,
                   directory |-> <<>>, run_in_background |-> background])
  \/ CallerCancel
  \/ TimeoutFire
  \/ SpawnForeground
  \/ SpawnBackground
  \/ WrapperWrite
  \/ SettleForeground
  \/ Throw
  \/ Elapse
  \/ \E id \in Ids, output \in Chunks : AddOutput(id, output, MaxLifeTag)
  \/ \E id \in Ids, e \in ExitCodes : ResolveResult(id, e)
  \/ \E id \in Ids, m \in Messages : RejectResult(id, m)
  \/ \E id \in Ids : CleanupFire(id)
  \/ AdvanceTime

SpecTemp == Init /\ [][NextTemp]_vars

\* one request to the shell tool, valid or not, and what follows from it
NextCall ==
  \/ \E params \in Requests : Call(params)
  \/ CallerCancel
  \/ TimeoutFire
  \/ SpawnForeground
  \/ SpawnBackground
  \/ SettleForeground
  \/ Elapse
  \/ \E id \in Ids, output \in Chunks : AddOutput(id, output, MaxLifeTag)
  \/ \E id \in Ids, e \in ExitCodes : ResolveResult(id, e)
  \/ \E id \in Ids, m \in Messages : RejectResult(id, m)
  \/ \E id \in Ids : CleanupFire(id)
  \/ AdvanceTime

SpecCall == Init /\ [][NextCall]_vars

\* the confirmation check, for the commands that pass validation, and the
\* answers that extend the allowlist
NextConfirm ==
  \/ \E command \in { c \in Commands :
                        /\ CommandCheckError(c) = <<>>
                        /\ EmptyCommandError(c) = <<>>
                        /\ NoRootError(c) = <<>> } :
       ShouldConfirmExecute(command)
  \/ \E outcome \in Outcomes : OnConfirm(outcome)

SpecConfirm == Init /\ [][NextConfirm]_vars

\* one foreground run, with or without an updateOutput callback, the
\* output events of its process and the clock
NextDisplay ==
  \/ \E updateOutput \in BOOLEAN :
       InvokeWith(FALSE, updateOutput,
                  [command |-> <<"ls">>, timeout |-> <<>>, description |-> <<>>,
                   directory |-> <<>>, run_in_background |-> FALSE])
  \/ SpawnForeground
  \/ \E event \in Events : Event(event)
  \/ \E d \in TickSteps : Tick(d)
  \/ SettleForeground

SpecDisplay == Init /\ [][NextDisplay]_vars

\* background launches under the ids generateId computes, their ends and
\* the eviction of their records
NextIds ==
  \/ \E random \in Suffixes : LaunchAt(random)
  \/ \E n \in 1..MaxLaunches, e \in ExitCodes : SettleLaunch(n, e)
  \/ \E id \in DOMAIN processes : CleanupFire(id)
  \/ AdvanceTime

SpecIds == Init /\ [][NextIds]_vars

\* the ends of a background process: its output, the settling of its
\* result promise with an exit code or an error, terminate, eviction
NextSettle ==
  \/ Launch
  \/ \E id \in Ids, output \in Chunks : AddOutput(id, output, MaxFrameTag)
  \/ \E id \in Ids, e \in ExitCodes : ResolveResult(id, e)
  \/ \E id \in Ids, m \in ErrorMessages : RejectResult(id, m)
  \/ \E id \in Ids : KillStart(id)
  \/ \E k \in 1..MaxKills : KillFinish(k)
  \/ \E id \in Ids : CleanupFire(id)
  \/ AdvanceTime

SpecSettle == Init /\ [][NextSettle]_vars

\* the way of a record out of the registry: its end, the timers and the
\* polls; a timer that is due fires, and time does not stop
NextEvict ==
  \/ Launch
  \/ \E id \in Ids : GetNewOutput(id, "bash_output_tool", <<>>)
  \/ \E id \in Ids, e \in ExitCodes : ResolveResult(id, e)
  \/ \E id \in Ids, m \in Messages : RejectResult(id, m)
  \/ \E id \in Ids : KillStart(id)
  \/ \E k \in 1..MaxKills : KillFinish(k)
  \/ \E id \in Ids : CleanupFire(id)
  \/ AdvanceTime

\* output that arrives after the end of its process: one line per event,
\* one line more than the buffer holds, every way a record ends, and the
\* polls of the poll tool
NextLate ==
  \/ Launch
  \/ \E id \in Ids, output \in FrameChunks : AddOutput(id, output, MAX_BUFFER_LINES + 1)
  \/ \E id \in Ids : GetNewOutput(id, "bash_output_tool", <<>>)
  \/ \E id \in Ids, e \in ExitCodes : ResolveResult(id, e)
  \/ \E id \in Ids, m \in Messages : RejectResult(id, m)
  \/ \E id \in Ids : KillStart(id)
  \/ \E k \in 1..MaxKills : KillFinish(k)
  \/ \E id \in Ids : CleanupFire(id)
  \/ AdvanceTime

SpecLate == Init /\ [][NextLate]_vars

SpecEvict ==
  /\ Init /\ [][NextEvict]_vars
  /\ WF_vars(AdvanceTime)
  /\ \A k \in 1..MaxKills : WF_vars(KillFinish(k))
  /\ \A id \in Ids : WF_vars(CleanupFire(id))

-----------------------------------------------------------------------------
(* Properties *)

Registered == DOMAIN processes
Buffer(id) == processes[id].outputBuffer
Offsets(id) == processes[id].lastReadIndex

\* number of lines evicted so far from the front of a buffer
Evicted(buf) == LastTag(buf) - Len(buf)

KilledOk(id) ==
  \E k \in DOMAIN kills :
    kills[k].pc = "done" /\ kills[k].success /\ kills[k].id = id

\* C1: once a record's status is completed, failed or terminated, no step
\* changes it while the record stays in the registry.
C1_TerminalStatusFinal ==
  [][\A id \in Registered :
       (processes[id].status \in Terminal /\ id \in DOMAIN processes')
         => processes'[id].status = processes[id].status]_vars

\* C2: after every call the output buffer of every registered process
\* holds at most MAX_BUFFER_LINES lines.
C2_BufferBound ==
  \A id \in Registered : Len(Buffer(id)) <= MAX_BUFFER_LINES

\* C2 witness: a full buffer that has evicted lines, and a failed process
\* whose buffer ends with the synthetic failure line after evictions.
C2_Witness ==
  \E id \in Registered :
    /\ Len(Buffer(id)) = MAX_BUFFER_LINES
    /\ Evicted(Buffer(id)) > 1
    /\ processes[id].status = "failed"
    /\ Buffer(id)[Len(Buffer(id))].text = FailPrefix \o <<"b">>

C3_OffsetsInRange ==
  \A id \in Registered : \A c \in DOMAIN Offsets(id) :
    0 <= Offsets(id)[c] /\ Offsets(id)[c] <= Len(Buffer(id))

C3_RebaseStep ==
  \A id \in Registered :
    id \in DOMAIN processes' =>
      LET k == Evicted(processes'[id].outputBuffer) - Evicted(Buffer(id))
      IN  k > 0 =>
            \A c \in DOMAIN Offsets(id) :
              /\ c \in DOMAIN processes'[id].lastReadIndex
              /\ processes'[id].lastReadIndex[c] = Max(0, Offsets(id)[c] - k)

\* C3: every consumer offset lies in 0..Len(buffer) in every state, and a
\* step that evicts k lines from the front turns every offset o into
\* max(0, o - k).
C3_Offsets == []C3_OffsetsInRange /\ [][C3_RebaseStep]_vars

\* C3 witness: after evictions, one consumer's offset was floored at 0 by
\* an eviction that passed it while another's was shifted and is positive.
C3_Witness ==
  \E id \in Registered :
    /\ Evicted(Buffer(id)) > 0
    /\ DOMAIN Offsets(id) = Consumers
    /\ \E c1, c2 \in Consumers :
         /\ Offsets(id)[c1] = 0 /\ hist[id][c1].missed
         /\ Offsets(id)[c2] > 0 /\ Offsets(id)[c2] < Len(Buffer(id))
         /\ ~hist[id][c2].missed

\* C4: after a terminate call on a running process returned success, every
\* terminate call started later (before eviction) returns success=false
\* with the "already terminated" message.
C4_TerminateIdempotent ==
  \A k1 \in DOMAIN kills : \A k2 \in DOMAIN kills :
    ( /\ kills[k1].pc = "done" /\ kills[k1].success
      /\ k1 \in kills[k2].after
      /\ kills[k2].id = kills[k1].id
      /\ kills[k2].pc = "done"
      /\ kills[k2].message # "No background process found" )
    => ( ~kills[k2].success /\ kills[k2].message = "was already terminated" )

\* C5: once a record's status is not running, no step sets it to running.
C5_NeverBackToRunning ==
  [][\A id \in Registered :
       (processes[id].status # "running" /\ id \in DOMAIN processes')
         => processes'[id].status # "running"]_vars

\* C5 witness: a record that left running through terminate and was then
\* hit by the late settlement of its result promise.
C5_Witness ==
  \E id \in Registered :
    /\ processes[id].status \in Terminal
    /\ KilledOk(id)
    /\ results[id] = "settled"
    /\ processes[id].outputBuffer # <<>>
    /\ "bash_output_tool" \in DOMAIN Offsets(id)

\* C6: a poll made after terminate returned success (and before eviction)
\* reports status terminated.
C6_PollAfterTerminate ==
  ( /\ ret.op = "poll"
    /\ ret.status # "not_found"
    /\ KilledOk(ret.id) )
  => ret.status = "terminated"

\* what a poll of consumer c is offered: the buffer from c's offset on
Offered(process, c) ==
  SubSeq(process.outputBuffer,
         (IF c \in DOMAIN process.lastReadIndex
          THEN process.lastReadIndex[c] ELSE 0) + 1,
         Len(process.outputBuffer))

C7_Step ==
  ret'.op = "poll" =>
    ( (ret'.status # "not_found" /\ ~RegexValid(ret'.filter)) =>
        /\ ret'.error = "Invalid regex filter"
        /\ ret'.output = <<>>
        /\ processes' = processes
        /\ getNewOutputResult(processes', ret'.id, ret'.consumerId, <<>>)
             = getNewOutputResult(processes, ret'.id, ret'.consumerId, <<>>) )

\* C7: a poll with an invalid regular expression returns an error and no
\* lines and leaves the whole record, the consumer's offset included,
\* unchanged, so the next unfiltered poll returns what it would have.
C7_InvalidFilterNoAdvance == [][C7_Step]_vars

\* C7 witness: an invalid-filter poll just returned its error to a consumer
\* that has read some lines and has unread ones.
C7_Witness ==
  /\ ret.op = "poll"
  /\ ret.error = "Invalid regex filter"
  /\ ret.id \in Registered
  /\ ret.consumerId \in DOMAIN Offsets(ret.id)
  /\ Offsets(ret.id)[ret.consumerId] > 0
  /\ Offsets(ret.id)[ret.consumerId] < Len(Buffer(ret.id))

C8_Step ==
  ret'.op = "poll" =>
    ( ret'.error = "" =>
        LET id == ret'.id
            c  == ret'.consumerId
            f  == ret'.filter
            Matches(e) == RegexTest(f, e.text)
        IN  /\ Len(f) > 0 =>
                 /\ ret'.output = SelectSeq(Offered(processes[id], c), Matches)
                 /\ processes'[id].lastReadIndex[c] = Len(Buffer(id))
            /\ c \in DOMAIN hist[id] =>
                 \A i \in 1..Len(ret'.output) :
                    ret'.output[i].n > hist[id][c].polledAt )

\* C8: a successful filtered poll returns exactly the matching lines of
\* buffer[offset:], in order, and moves the offset to the buffer's length;
\* no later poll of the consumer returns a line offered to an earlier one.
C8_FilteredPoll == [][C8_Step]_vars

\* C8 witness: a filtered poll just returned two matching lines and skipped
\* a non-matching line between them.
C8_Witness ==
  /\ ret.op = "poll"
  /\ ret.error = ""
  /\ Len(ret.filter) > 0
  /\ Len(ret.output) >= 2
  /\ \E i \in 1..Len(Buffer(ret.id)) :
       /\ Buffer(ret.id)[i].n > ret.output[1].n
       /\ Buffer(ret.id)[i].n < ret.output[Len(ret.output)].n
       /\ ~RegexTest(ret.filter, Buffer(ret.id)[i].text)

C9_Concatenation ==
  \A id \in Registered : \A c \in DOMAIN hist[id] :
    (Evicted(Buffer(id)) = 0 /\ ~hist[id][c].filtered) =>
      /\ hist[id][c].gapless
      /\ Offsets(id)[c] = hist[id][c].polledAt

C9_MonotoneStep ==
  \A id \in Registered :
    (id \in DOMAIN processes'
       /\ Evicted(processes'[id].outputBuffer) = Evicted(Buffer(id))) =>
      \A c \in DOMAIN Offsets(id) :
        /\ c \in DOMAIN processes'[id].lastReadIndex
        /\ processes'[id].lastReadIndex[c] >= Offsets(id)[c]

\* C9: without eviction a consumer's offset never decreases, and the
\* batches returned to a consumer that polls without a filter concatenate
\* to the buffer's lines from the first to the last one present at its
\* latest poll.
C9_OffsetMonotone == []C9_Concatenation /\ [][C9_MonotoneStep]_vars

\* C9 witness: an unfiltered consumer just got a later batch (not starting
\* at the first line) and has now received the whole, never evicted, buffer.
C9_Witness ==
  /\ ret.op = "poll"
  /\ ret.error = ""
  /\ ret.output # <<>>
  /\ ret.output[1].n > 1
  /\ Evicted(Buffer(ret.id)) = 0
  /\ ~hist[ret.id][ret.consumerId].filtered
  /\ hist[ret.id][ret.consumerId].gapless
  /\ hist[ret.id][ret.consumerId].polledAt = Len(Buffer(ret.id))

C10_NonNegative ==
  \A id \in Registered : \A c \in DOMAIN Offsets(id) : Offsets(id)[c] >= 0

C10_Step ==
  ret'.op = "poll" =>
    ( (ret'.error = "" /\ Len(ret'.filter) = 0) =>
        LET id == ret'.id
            c  == ret'.consumerId
        IN  (c \in DOMAIN hist[id] /\ ~hist[id][c].missed) =>
              Tags(ret'.output)
                = Interval(hist[id][c].polledAt + 1, LastTag(Buffer(id))) )

\* C10: when the evictions since a consumer's last poll removed only lines
\* it had read, its next unfiltered poll returns exactly the lines appended
\* since that poll; offsets are never negative.
C10_EvictionRebasing == []C10_NonNegative /\ [][C10_Step]_vars

\* C10 witness: with lines 1..5 appended and two of them evicted, a
\* consumer whose earlier polls covered lines 1..2 just received 3..5.
C10_Witness ==
  /\ ret.op = "poll"
  /\ ret.error = ""
  /\ Len(ret.filter) = 0
  /\ Tags(ret.output) = <<3, 4, 5>>
  /\ Evicted(Buffer(ret.id)) = 2
  /\ hist[ret.id][ret.consumerId].gapless
  /\ ~hist[ret.id][ret.consumerId].filtered

C11_AppendOrder ==
  \A id \in Registered :
    \A i \in 1..Len(Buffer(id)), j \in 1..Len(Buffer(id)) :
      i < j => Buffer(id)[i].n < Buffer(id)[j].n

C11_Step ==
  ret'.op = "poll" =>
    ( (ret'.error = "" /\ Len(ret'.filter) = 0) =>
        LET id == ret'.id
            c  == ret'.consumerId
            out == ret'.output
        IN  /\ \A i \in 1..Len(out) : \A j \in 1..Len(out) :
                 i < j => out[i].n < out[j].n
            /\ \A i \in 1..Len(out) :
                 \E k \in 1..Len(Buffer(id)) : Buffer(id)[k] = out[i]
            /\ c \in DOMAIN hist[id] =>
                 \A i \in 1..Len(out) : out[i].n > hist[id][c].polledAt )

\* C11: the lines delivered to one consumer by its unfiltered polls are
\* lines of the buffer, which holds the appended lines in append order, and
\* every batch is in append order and lies after everything any earlier
\* poll of that consumer was offered: no line twice, none out of order,
\* with or without evictions between the polls.
C11_DeliveredSubsequence == []C11_AppendOrder /\ [][C11_Step]_vars

\* C11 witness: an unfiltered poll just delivered a batch to a consumer
\* that polls without filters and lost unread lines to an eviction, so its
\* deliveries skip lines but stay in order.
C11_Witness ==
  /\ ret.op = "poll"
  /\ ret.error = ""
  /\ Len(ret.filter) = 0
  /\ Len(ret.output) >= 2
  /\ ret.output[1].n > 2
  /\ Evicted(Buffer(ret.id)) > 0
  /\ ~hist[ret.id][ret.consumerId].filtered
  /\ ~hist[ret.id][ret.consumerId].gapless

C12_Step ==
  ret'.op = "poll" =>
    LET id == ret'.id
        c1 == ret'.consumerId
    IN  /\ DOMAIN processes' = DOMAIN processes
        /\ \A p \in Registered : \A c2 \in Consumers :
             (p # id \/ c2 # c1) =>
               /\ c2 \in DOMAIN processes'[p].lastReadIndex
                    <=> c2 \in DOMAIN Offsets(p)
               /\ c2 \in DOMAIN Offsets(p) =>
                    processes'[p].lastReadIndex[c2] = Offsets(p)[c2]
               /\ \A f2 \in Filters :
                    getNewOutputResult(processes', p, c2, f2)
                      = getNewOutputResult(processes, p, c2, f2)

\* C12: a poll by consumer c1 of process p leaves the offset of every other
\* consumer of p and every offset of every other process as it was, and
\* what any of those would be returned by a poll, with any filter, is the
\* same after c1's poll as before it.
C12_PollFrame == [][C12_Step]_vars

\* C12 witness: a poll just moved one consumer's offset on one process
\* while the other consumer of that process and a consumer of the other
\* process hold offsets and have unread lines.
C12_Witness ==
  /\ ret.op = "poll"
  /\ ret.error = ""
  /\ ret.output # <<>>
  /\ \E c2 \in Consumers \ {ret.consumerId} :
       /\ c2 \in DOMAIN Offsets(ret.id)
       /\ Offsets(ret.id)[c2] > 0
       /\ Offsets(ret.id)[c2] < Len(Buffer(ret.id))
  /\ \E p \in Registered \ {ret.id} : \E c \in DOMAIN Offsets(p) :
       Offsets(p)[c] < Len(Buffer(p))

\* a record without its consumer offsets
Metadata(process) == [process EXCEPT !.lastReadIndex = <<>>]

C13_Step ==
  /\ ret'.op = "list" => processes' = processes
  /\ ret'.op = "poll" =>
       /\ DOMAIN processes' = DOMAIN processes
       /\ \A id \in Registered :
            /\ Metadata(processes'[id]) = Metadata(processes[id])
            /\ \A c \in DOMAIN Offsets(id) \cup DOMAIN processes'[id].lastReadIndex :
                 (id # ret'.id \/ c # ret'.consumerId) =>
                   /\ c \in DOMAIN Offsets(id)
                   /\ c \in DOMAIN processes'[id].lastReadIndex
                   /\ processes'[id].lastReadIndex[c] = Offsets(id)[c]
  /\ ret'.op \in {"poll", "list"} =>
       /\ cleanupTimers' = cleanupTimers
       /\ timeouts' = timeouts
       /\ results' = results
       /\ aborts' = aborts
       /\ kills' = kills
       /\ now' = now

\* C13: a poll or a list leaves the status, command, pid, exit code, start
\* and end time and output buffer of every record and every pending
\* eviction timer as they were; a poll changes at most the offset entry of
\* its own consumer on its own record, and a list changes nothing.
C13_ReadersFrame == [][C13_Step]_vars

\* C13 witness: a poll just delivered lines of a record that has ended,
\* carries an exit code and an end time and awaits its eviction timer.
C13_Witness ==
  /\ ret.op = "poll"
  /\ ret.error = ""
  /\ ret.output # <<>>
  /\ ret.id \in Registered
  /\ processes[ret.id].status = "completed"
  /\ processes[ret.id].exitCode # <<>>
  /\ processes[ret.id].endTime # <<>>
  /\ ret.id \in DOMAIN cleanupTimers
  /\ Offsets(ret.id)[ret.consumerId] = Len(Buffer(ret.id))

\* the pending eviction timers of an id
TimersOf(Q, id) == { k \in DOMAIN Q : Q[k].id = id }

\* a timer of the id was pending and due, and one timer less is pending
TimerFired(id) ==
  /\ \E k \in TimersOf(timeouts, id) : timeouts[k].deadline <= now
  /\ Len(timeouts') = Len(timeouts) - 1
  /\ Cardinality(TimersOf(timeouts', id)) = Cardinality(TimersOf(timeouts, id)) - 1

C14_PendingOnlyTerminal ==
  /\ \A k \in DOMAIN timeouts :
       LET id == timeouts[k].id
       IN  /\ id \in Registered
           /\ processes[id].status \in Terminal
           /\ processes[id].endTime # <<>>
           /\ timeouts[k].deadline >= processes[id].endTime[1] + 30 * 60 * 1000
  /\ \A id \in Registered :
       processes[id].status = "running" =>
         TimersOf(timeouts, id) = {} /\ id \notin DOMAIN cleanupTimers

C14_Step ==
  /\ \A id \in Registered :
       id \notin DOMAIN processes' =>
         /\ TimerFired(id)
         /\ processes[id].status \in Terminal
         /\ now >= processes[id].endTime[1] + 30 * 60 * 1000
  /\ \A k \in DOMAIN timeouts' :
       (\A j \in DOMAIN timeouts : timeouts[j] # timeouts'[k]) =>
         LET id == timeouts'[k].id
         IN  /\ id \in Registered
             /\ id \in DOMAIN processes'
             /\ processes'[id].status \in Terminal
             /\ processes'[id].endTime = <<now>>
             /\ processes'[id] # processes[id]

C15_OneTimer ==
  \A id \in Ids :
    /\ Cardinality(TimersOf(timeouts, id)) <= 1
    /\ id \in DOMAIN cleanupTimers <=>
         \E k \in TimersOf(timeouts, id) : timeouts[k].deadline = cleanupTimers[id]
    /\ id \in DOMAIN cleanupTimers \/ TimersOf(timeouts, id) = {}

C15_Step ==
  \A id \in Ids :
    Cardinality(TimersOf(timeouts', id)) < Cardinality(TimersOf(timeouts, id)) =>
      /\ TimersOf(timeouts', id) = {}
      /\ id \in Registered
      /\ id \notin DOMAIN processes'
      /\ id \notin DOMAIN cleanupTimers'

\* C15: every id has at most one pending eviction timer, the one the timer
\* map holds for it: a terminal transition of an id with a pending timer
\* replaces that timer; and the only way a timer of an id stops being
\* pending without a successor is to fire and delete the record, after
\* which none is pending for the id, so a record is deleted by one firing.
C15_SingleTimer == []C15_OneTimer /\ [][C15_Step]_vars

\* C15 witness: a record completed while terminate waited and was marked
\* terminated when the wait ended: the timer set at completion was
\* replaced by the one pending, due 30 minutes after the second marking.
C15_Witness ==
  \E id \in Registered :
    /\ processes[id].status = "terminated"
    /\ processes[id].exitCode # <<>>
    /\ id \in DOMAIN cleanupTimers
    /\ cleanupTimers[id] = GRACE_MS + CLEANUP_TIMEOUT_MS
    /\ Len(timeouts) = 1
    /\ timeouts[1].deadline = cleanupTimers[id]

\* the texts of the last k entries of a buffer
LastTexts(buf, k) == [i \in 1..k |-> buf[Len(buf) - k + i].text]

C16_RegisteredWhenEmitting ==
  \A id \in Ids :
    EngineEmits(id) => (id \in Registered \/ now >= 30 * 60 * 1000)

C16_Step ==
  \A id \in Ids, output \in Chunks :
    AddOutput(id, output, MaxLifeTag) =>
      /\ id \in Registered \/ now >= 30 * 60 * 1000
      /\ id \in Registered =>
           LET lines == Lines(output)
               buf   == processes'[id].outputBuffer
           IN  /\ LastTag(buf) = LastTag(Buffer(id)) + Len(lines)
               /\ Len(lines) <= MAX_BUFFER_LINES =>
                    /\ Len(buf) >= Len(lines)
                    /\ LastTexts(buf, Len(lines)) = lines

C17_NothingStarted ==
  run.llm = "before_start" =>
    /\ run.pc = "done"
    /\ run.engine = "none"
    /\ run.bashId = <<>>
    /\ Registered = {}
    /\ DOMAIN results = {}

C17_Step ==
  (run.pc = "idle" /\ run'.pc # "idle" /\ run.signal) =>
    /\ run'.pc = "done"
    /\ run'.llm = "before_start"
    /\ run'.engine = "none"
    /\ processes' = processes
    /\ results' = results

\* C17: an invocation, foreground or background, made when the caller's
\* signal is already aborted returns the 'cancelled before it could start'
\* result at once; the engine is never called for it and no record is ever
\* registered for it.
C17_CancelledBeforeStart == []C17_NothingStarted /\ [][C17_Step]_vars

\* C17 witness: a background request made with an aborted signal has
\* returned the 'before it could start' result, and the time of its
\* timeout has passed.
C17_Witness ==
  /\ run.llm = "before_start"
  /\ run.background
  /\ run.signal
  /\ run.expiry # <<>>
  /\ now >= run.expiry[1]

\* a foreground run that got past the early return
StartedForeground ==
  run.pc \in {"spawning", "running", "done"} /\ ~run.background
    /\ run.llm # "before_start"

C18_Narrative ==
  /\ run.pc # "done" => run.llm = ""
  /\ (StartedForeground /\ run.pc = "done") =>
       /\ (run.timerFired /\ ~run.callerFired) => run.llm = "timeout"
       /\ run.callerFired => run.llm # "timeout"
       /\ run.llm = "timeout" => run.timerFired

C18_Step ==
  (StartedForeground /\ run.pc = "done") => run'.llm = run.llm

\* C18: a foreground run whose timeout timer fired and whose caller's
\* signal did not fire before the result was assembled returns the timeout
\* result; one whose caller's signal fired before that never returns the
\* timeout result, whether the timer fired as well, before or after it, or
\* not, and whenever the process ended; what was returned stays so.
C18_TimeoutVersusCaller == []C18_Narrative /\ [][C18_Step]_vars

\* C18 witness: the timer of a started foreground run fired, the caller
\* never cancelled, and the run returned the timeout result.
C18_Witness ==
  /\ StartedForeground
  /\ run.pc = "done"
  /\ run.timerFired
  /\ ~run.signal
  /\ run.llm = "timeout"
  /\ now = run.expiry[1]

\* C19: in a started foreground run the signal handed to the engine is
\* aborted exactly when the caller's signal fired or the timer expired
\* between the start of the run and the settling of its result, and it
\* dispatches one abort event, not two, when both did.
C19_CombinedSignal ==
  StartedForeground =>
    /\ run.engineSignal = "timeout"
    /\ EngineSignalAborted(run, aborts) <=> (run.callerFired \/ run.timerFired)
    /\ run.abortEvents <= 1
    /\ run.abortEvents = 1 <=> EngineSignalAborted(run, aborts)

\* C19 witness: in one foreground run the timer expired and the caller's
\* signal fired before the result settled; the engine's signal was aborted
\* once.
C19_Witness ==
  /\ StartedForeground
  /\ run.pc = "done"
  /\ run.timerFired
  /\ run.callerFired
  /\ run.abortEvents = 1

\* the latest killProcess call was made in this step, for the id
KillCalled(id) ==
  /\ Len(kills') = Len(kills) + 1
  /\ kills'[Len(kills')].id = id

C20_NoTimer ==
  run.background =>
    /\ run.timer = <<>>
    /\ run.pc \in {"spawning", "done"}
    /\ run.engine # "none" => run.engineSignal = "process"

C20_Step ==
  /\ \A id \in DOMAIN aborts :
       (id \in DOMAIN aborts' /\ aborts'[id] # aborts[id]) => KillCalled(id)
  /\ (run.background /\ run.bashId # <<>>
        /\ ~EngineSignalAborted(run, aborts)
        /\ EngineSignalAborted(run', aborts')) => KillCalled(run.bashId[1])
  /\ (run.background /\ run.pc = "spawning" /\ run'.pc = "done") =>
       /\ ~EngineSignalAborted(run', aborts')
       /\ ret'.op = "launch"
       /\ ret'.id \in DOMAIN processes'
       /\ processes'[ret'.id].status = "running"
       /\ processes'[ret'.id].pid = ret'.id

\* C20: a background launch sets no timeout timer and hands the engine the
\* signal of the process's own AbortController; that signal is aborted
\* only by a step in which killProcess is called for the id, not by the
\* timer, the passing of the request's timeout or the caller's signal; the
\* launch returns the id of a running record that holds the pid.
C20_BackgroundIgnoresTimeout == []C20_NoTimer /\ [][C20_Step]_vars

\* C20 witness: after a background launch the request's timeout has
\* elapsed and the caller's signal has fired, and the process is running
\* with its cancellation signal not aborted.
C20_Witness ==
  /\ run.background
  /\ run.llm = "background_started"
  /\ run.signal
  /\ now >= run.expiry[1]
  /\ processes[run.bashId[1]].status = "running"
  /\ aborts[run.bashId[1]] = 0
  /\ ~EngineSignalAborted(run, aborts)

\* the run call has returned and the process it spawned has exited
ReturnedAndExited ==
  /\ run.pc = "done"
  /\ IF run.background
     THEN run.bashId # <<>> /\ results[run.bashId[1]] = "settled"
     ELSE run.engine = "exited"

\* C21: once the run call, foreground or background, has returned and the
\* process it spawned has exited, the side-channel file of the execution
\* does not exist.
C21_TempFileRemoved == ReturnedAndExited => ~run.tempFile

\* the causes of rejection, stated on the request
PolicyDenied(params) == ~isCommandAllowed(params.command).allowed
EmptyCommand(params) == \A i \in DOMAIN params.command : params.command[i] = Blank
NoIdentifiableRoot(params) == getCommandRoots(params.command) = <<>>
TimeoutOutOfRange(params) ==
  params.timeout # <<>> /\ (params.timeout[1] <= 0 \/ params.timeout[1] > 600000)

FailsValidation(params) ==
  \/ PolicyDenied(params)
  \/ EmptyCommand(params)
  \/ NoIdentifiableRoot(params)
  \/ TimeoutOutOfRange(params)

\* nothing of an execution exists: no process, no timer, no record
NothingStarted ==
  /\ run.engine = "none"
  /\ run.timer = <<>>
  /\ run.expiry = <<>>
  /\ ~run.listener
  /\ run.bashId = <<>>
  /\ Registered = {}
  /\ DOMAIN results = {}
  /\ timeouts = <<>>

C22_Rejected ==
  /\ run.pc = "rejected" => (NothingStarted /\ run.llm # "")
  /\ (run.params # <<>> /\ FailsValidation(run.params[1])) =>
       (run.pc = "rejected" /\ NothingStarted)

C22_Step ==
  (run.pc = "idle" /\ run'.pc # "idle" /\ FailsValidation(run'.params[1])) =>
    LET params == run'.params[1]
    IN
      /\ run'.pc = "rejected"
      /\ run'.llm # ""
      /\ TimeoutOutOfRange(params) =>
           (PolicyDenied(params) \/ EmptyCommand(params) \/ NoIdentifiableRoot(params)
              \/ run'.llm \in { "Timeout must be a positive number.",
                                "Timeout cannot exceed 600000ms (10 minutes)." })
      /\ run' = [run EXCEPT !.pc = "rejected", !.params = <<params>>,
                            !.llm = run'.llm]
      /\ <<processes, cleanupTimers, timeouts, results, aborts, kills, now>>'
           = <<processes, cleanupTimers, timeouts, results, aborts, kills, now>>

\* C22: a request with a denied, empty or rootless command or a timeout
\* that is not in (0, 600000] is answered with an error message, the return
\* value of the validation, in a step that spawns no process, arms no timer
\* and registers no record, and nothing of the kind follows from it.
C22_ValidationBeforeSpawn == []C22_Rejected /\ [][C22_Step]_vars

\* C22 witness: a request with a timeout above the limit was rejected with
\* the message of that limit, and nothing was started.
C22_Witness ==
  /\ run.pc = "rejected"
  /\ run.llm = "Timeout cannot exceed 600000ms (10 minutes)."
  /\ NothingStarted

C23_FiresWhenElapsed ==
  (run.timerFired /\ run.params # <<>>) =>
    now >= (IF run.params[1].timeout = <<>> THEN 120000
            ELSE run.params[1].timeout[1])

C23_Step ==
  (run.pc = "idle" /\ run'.pc \notin {"idle", "rejected"}
     /\ ~run'.params[1].run_in_background) =>
    LET params == run'.params[1]
    IN  /\ run'.timer # <<>>
        /\ run'.timer[1] - now > 0
        /\ run'.timer[1] - now <= 600000
        /\ params.timeout # <<>> => run'.timer[1] - now = params.timeout[1]
        /\ params.timeout = <<>> => run'.timer[1] - now = 120000

\* C23: the timeout timer of a foreground invocation made for a request
\* that passed validation is set to a delay in (0, 600000] ms, which is the
\* timeout of the request when it gives one and 120000 ms when it gives
\* none, and the timer does not fire before that delay has passed.
C23_EffectiveTimeout == []C23_FiresWhenElapsed /\ [][C23_Step]_vars

\* C23 witness: a foreground run requested with the largest timeout
\* allowed ended by that timeout, 600000 ms after its start.
C23_Witness ==
  /\ run.pc = "done"
  /\ run.llm = "timeout"
  /\ run.params[1].timeout = <<600000>>
  /\ now = 600000

C24_Step ==
  \A id \in Registered :
    (processes[id].status \in Terminal /\ KillCalled(id)) =>
      LET call == kills'[Len(kills')]
      IN  /\ call.pc = "done"
          /\ ~call.success
          /\ processes[id].status = "completed" =>
               call.message = "Process has already completed"
          /\ processes[id].status = "failed" => call.message = "has already failed"
          /\ processes[id].status = "terminated" =>
               call.message = "was already terminated"
          /\ aborts' = aborts
          /\ processes' = processes
          /\ cleanupTimers' = cleanupTimers
          /\ timeouts' = timeouts

C24_Returned ==
  \A k \in DOMAIN kills :
    kills[k].message \in { "Process has already completed", "has already failed",
                           "was already terminated" }
      => (kills[k].pc = "done" /\ ~kills[k].success)

\* C24: a killProcess call made for a record whose status is completed,
\* failed or terminated returns at once with success=false and the message
\* of that status; the step calls no abort() and leaves the record (status,
\* exit code, end time and all) and its pending eviction timer as they were.
C24_TerminateAfterEnd == []C24_Returned /\ [][C24_Step]_vars

\* C24 witness: terminate was refused for a failed record and for no other
\* reason: abort() was never called for the id and the eviction timer set
\* at the failure is the one pending.
C24_Witness ==
  \E id \in Registered : \E k \in DOMAIN kills :
    /\ kills[k].id = id
    /\ kills[k].message = "has already failed"
    /\ processes[id].status = "failed"
    /\ aborts[id] = 0
    /\ Len(timeouts) = 1
    /\ timeouts[1].deadline = processes[id].endTime[1] + CLEANUP_TIMEOUT_MS

\* everything but the return value and the history is as it was
RegistryUnchanged ==
  <<processes, cleanupTimers, timeouts, results, aborts, now>>'
    = <<processes, cleanupTimers, timeouts, results, aborts, now>>

C25_Step ==
  /\ \A id \in Ids, output \in Chunks :
       (id \notin Registered /\ AddOutput(id, output, MaxLifeTag)) =>
         (RegistryUnchanged /\ kills' = kills /\ hist' = hist)
  /\ (ret'.op = "poll" /\ ret'.id \notin Registered) =>
       /\ ret'.status = "not_found"
       /\ ret'.output = <<>>
       /\ ret'.error # ""
       /\ RegistryUnchanged /\ kills' = kills /\ hist' = hist
  /\ \A id \in Ids :
       (id \notin Registered /\ KillCalled(id)) =>
         LET call == kills'[Len(kills')]
         IN  /\ call.pc = "done"
             /\ ~call.success
             /\ call.message = "No background process found"
             /\ RegistryUnchanged /\ hist' = hist

C25_NoStrayEntries ==
  /\ Registered \subseteq DOMAIN results
  /\ DOMAIN hist = Registered
  /\ DOMAIN cleanupTimers \subseteq Registered
  /\ \A k \in DOMAIN timeouts : timeouts[k].id \in Registered

\* C25: addOutput, getNewOutput and killProcess called with an id that is
\* not in the registry, because it was never registered or its record was
\* evicted, leave the registry, the timers and the abort controllers as
\* they were: addOutput does nothing, getNewOutput returns not_found with
\* no lines and an error text, killProcess returns success=false with the
\* not-found message; records exist only for ids that were launched.
C25_UnknownId == []C25_NoStrayEntries /\ [][C25_Step]_vars

\* C25 witness: after the record of a launched process was evicted, a poll
\* of its id returned not_found and a terminate of it the not-found
\* message, and the registry is empty.
C25_Witness ==
  /\ ret.op = "poll"
  /\ ret.status = "not_found"
  /\ ret.id \in DOMAIN results
  /\ Registered = {}
  /\ \E k \in DOMAIN kills :
       kills[k].id = ret.id /\ kills[k].message = "No background process found"

\* the root commands of a command, taken from inside its wrapping shell
RootSet(command) ==
  LET roots == getCommandRoots(stripShellWrapper(command))
  IN  { roots[i] : i \in DOMAIN roots }

C26_Step ==
  ret'.op = "confirm" =>
    LET needed == RootSet(ret'.command) \ allowlist
        details == ret'.details
    IN  /\ details = <<>> <=> needed = {}
        /\ details # <<>> =>
             /\ { details[1][i] : i \in DOMAIN details[1] } = needed
             /\ Len(details[1]) = Cardinality(needed)
        /\ allowlist' = allowlist

C26_OnlyApprovedRoots ==
  \A c \in allowlist : \E command \in Commands : c \in RootSet(command)

\* C26: the confirmation check of a command asks for exactly the root
\* commands of the command inside its wrapping shell that are not in the
\* allowlist, each once, and asks for nothing (returns false) exactly when
\* there is none; the check itself leaves the allowlist as it is, which
\* holds only root commands that were asked for.
C26_ConfirmationSet == []C26_OnlyApprovedRoots /\ [][C26_Step]_vars

\* C26 witness: with ls approved, the check of `ls -l && cat | ls` asked
\* for cat alone.
C26_Witness ==
  /\ ret.op = "confirm"
  /\ ret.command = <<"ls", Blank, "-l", "&&", "cat", "|", "ls">>
  /\ allowlist = {"ls"}
  /\ ret.details = << <<"cat">> >>

\* the display updates so far
Updates == run.updates

C27_Throttle ==
  /\ \A i \in DOMAIN Updates :
       Updates[i].type \in {"data", "binary_progress"} =>
         Updates[i].at - (IF i = 1 THEN 0 ELSE Updates[i - 1].at) > 1000
  /\ ~run.updateOutput => Updates = <<>>

C27_Step ==
  (run.updateOutput /\ Event([type |-> "binary_detected"])) =>
    /\ Len(run'.updates) = Len(Updates) + 1
    /\ run'.updates[Len(run'.updates)].at = now
    /\ run'.updates[Len(run'.updates)].type = "binary_detected"
    /\ SubSeq(run'.updates, 1, Len(Updates)) = Updates

\* C27: in a foreground run every display update caused by a data or a
\* binary_progress event comes more than 1000 ms after the update before
\* it, whatever caused that one (the first: after the start of the run),
\* and every binary_detected event causes an update at once.
C27_UpdateThrottle == []C27_Throttle /\ [][C27_Step]_vars

\* C27 witness: a data update at 1001 ms, a binary_detected update in the
\* same millisecond, and a binary_progress update 1001 ms later.
C27_Witness ==
  /\ Len(Updates) = 3
  /\ Updates[1].type = "data" /\ Updates[1].at = 1001
  /\ Updates[2].type = "binary_detected" /\ Updates[2].at = 1001
  /\ Updates[3].type = "binary_progress" /\ Updates[3].at = 2002

C28_NoDataAfterBinary ==
  \A i \in DOMAIN Updates : \A j \in DOMAIN Updates :
    (i < j /\ Updates[i].type # "data") => Updates[j].type # "data"

C28_Step ==
  \A event \in Events :
    (run.binarySeen /\ event.type = "data" /\ Event(event)) =>
      /\ run'.cumulativeOutput = run.cumulativeOutput
      /\ run'.updates = Updates

\* C28: once a binary_detected or binary_progress event was delivered to
\* a foreground run, a data event changes neither cumulativeOutput nor
\* the display: every update after the first binary one is a binary one.
C28_BinaryEndsData == []C28_NoDataAfterBinary /\ [][C28_Step]_vars

\* C28 witness: a data chunk was shown, a binary_progress event followed,
\* and a data event delivered more than 1000 ms after the last update left
\* the first chunk in cumulativeOutput and the display alone.
C28_Witness ==
  /\ run.events = 3
  /\ run.binarySeen
  /\ run.cumulativeOutput = <<"a">>
  /\ Len(Updates) = 1
  /\ Updates[1].type = "data"
  /\ now - Updates[1].at > 1000
  /\ run.isBinaryStream

C29_Step ==
  \A n \in DOMAIN results' \ DOMAIN results :
    /\ results'[n].id \notin DOMAIN processes
    /\ \A k \in DOMAIN results : results[k].id # results'[n].id

\* C29: a background launch registers its process under an id that no
\* earlier launch was registered under, so that it replaces no record.
C29_FreshIds == [][C29_Step]_vars

C30_Returned ==
  run.llm = "background_started" =>
    /\ run.pc = "done"
    /\ run.bashId # <<>>
    /\ run.bashId[1] \in DOMAIN results

C30_Step ==
  /\ (run.background /\ run.pc = "spawning" /\ run'.pc = "done") =>
       LET id == run'.bashId[1]
       IN  /\ run'.llm = "background_started"
           /\ ret' = [op |-> "launch", id |-> id]
           /\ results'[id] = "pending"
           /\ processes'[id].status = "running"
           /\ processes'[id].pid = id
           /\ processes'[id].handle
  /\ \A id \in Registered :
       (processes[id].status = "running"
          /\ results[id] = "pending" /\ results'[id] = "settled") =>
         /\ id \in DOMAIN processes'
         /\ processes'[id].status \in {"completed", "failed"}
         /\ processes'[id].endTime = <<now>>
  /\ \A id \in Registered :
       (processes[id].status = "running" /\ id \in DOMAIN processes'
          /\ processes'[id].status # "running") =>
         (results'[id] # results[id] \/ kills' # kills)

\* C30: a background launch returns its id and pid in the step that
\* registers the process, with the result promise pending and the record
\* running, so the return does not wait for the process to exit; the
\* settling of the promise, whenever it comes, moves a running record to
\* completed or failed, and nothing else but terminate moves it.
C30_LaunchDoesNotAwait == []C30_Returned /\ [][C30_Step]_vars

\* C30 witness: the launch returned at the start; the process was still
\* running when the timeout of the request had passed, and its record
\* became completed when the promise settled after that.
C30_Witness ==
  /\ run.llm = "background_started"
  /\ processes[run.bashId[1]].status = "completed"
  /\ processes[run.bashId[1]].startTime = 0
  /\ processes[run.bashId[1]].endTime[1] >= run.expiry[1]
  /\ kills = <<>>

\* terminate was called for the id
Terminating(id) == \E k \in DOMAIN kills : kills[k].id = id

\* the eviction timer of the id is armed, from now on
TimerArmed(id) ==
  /\ id \in DOMAIN cleanupTimers'
  /\ cleanupTimers'[id] = now + CLEANUP_TIMEOUT_MS
  /\ \E k \in DOMAIN timeouts' :
       timeouts'[k] = [id |-> id, deadline |-> now + CLEANUP_TIMEOUT_MS]

C31_Resolved(id, e) ==
  /\ id \in DOMAIN processes'
  /\ processes'[id].status = "completed"
  /\ processes'[id].exitCode = <<e>>
  /\ processes'[id].endTime = <<now>>
  /\ TimerArmed(id)

C31_Rejected(id) ==
  /\ id \in DOMAIN processes'
  /\ processes'[id].status = "failed"
  /\ processes'[id].endTime = <<now>>
  /\ TimerArmed(id)

\* the buffer ends with the one line made of the text
EndsWithLine(buf, text) == Len(buf) > 0 /\ buf[Len(buf)].text = text

\* the buffer ends with the non-empty lines of the text, as far as the
\* buffer bound leaves room for them
EndsWithLinesOf(buf, text) ==
  LET lines == Lines(text)
      k == IF Len(lines) <= MAX_BUFFER_LINES THEN Len(lines) ELSE MAX_BUFFER_LINES
  IN  /\ Len(buf) >= k
      /\ LastTexts(buf, k) = SubSeq(lines, Len(lines) - k + 1, Len(lines))

SettlesRunning(id) ==
  /\ id \in Registered
  /\ processes[id].status = "running"
  /\ ~Terminating(id)

C31_StepAsClaimed ==
  \A id \in LaunchIds :
    SettlesRunning(id) =>
      /\ \A e \in ExitCodes : ResolveResult(id, e) => C31_Resolved(id, e)
      /\ \A m \in ErrorMessages :
           RejectResult(id, m) =>
             /\ C31_Rejected(id)
             /\ EndsWithLine(processes'[id].outputBuffer, FailPrefix \o m)

\* C31 as claimed: when the result promise of a running process that
\* terminate was not called on resolves with exit code e, the record
\* becomes completed with that exit code; when it rejects with message m,
\* the record becomes failed and the last line of its buffer is
\* 'Process failed: m'; either way the end time is set and an eviction
\* timer is armed.
C31_SettleAsClaimed == [][C31_StepAsClaimed]_vars

C31_Step ==
  \A id \in LaunchIds :
    SettlesRunning(id) =>
      /\ \A e \in ExitCodes : ResolveResult(id, e) => C31_Resolved(id, e)
      /\ \A m \in ErrorMessages :
           RejectResult(id, m) =>
             /\ C31_Rejected(id)
             /\ EndsWithLinesOf(processes'[id].outputBuffer, FailPrefix \o m)

\* C31, amended: as claimed, but on a rejection the buffer ends with the
\* non-empty lines of 'Process failed: m' (one line when m has no line
\* break), as many of them as the buffer bound admits.
C31_Settle == [][C31_Step]_vars

\* C31 witness: a process that had filled its buffer failed with a message
\* of two lines; both are the last lines of its buffer, its end time is
\* set and its eviction timer is pending.
C31_Witness ==
  \E id \in Registered :
    /\ processes[id].status = "failed"
    /\ ~Terminating(id)
    /\ Len(Buffer(id)) = MAX_BUFFER_LINES
    /\ Evicted(Buffer(id)) > 0
    /\ LastTexts(Buffer(id), 2) = << FailPrefix \o <<"a">>, <<"b">> >>
    /\ processes[id].endTime # <<>>
    /\ TimersOf(timeouts, id) # {}

\* terminate is called, in this step, on a running process that has a
\* cancellation handle
C32_Called(id) ==
  /\ KillCalled(id)
  /\ id \in Registered
  /\ processes[id].status = "running"
  /\ processes[id].abortController

\* the k-th terminate call returns in this step from its grace wait
C32_Returns(k) ==
  /\ kills[k].pc = "grace"
  /\ kills'[k].pc = "done"

C32_Step ==
  /\ \A id \in Ids :
       C32_Called(id) =>
         /\ aborts'[id] = aborts[id] + 1
         /\ kills'[Len(kills')].pc = "grace"
         /\ kills'[Len(kills')].deadline = now + GRACE_MS
         /\ processes' = processes
  /\ \A k \in DOMAIN kills :
       C32_Returns(k) =>
         LET id == kills[k].id
         IN  /\ now >= kills[k].deadline
             /\ kills'[k].success
             /\ id \in DOMAIN processes'
             /\ processes'[id].status = "terminated"
             /\ processes'[id].endTime = <<now>>
             /\ TimerArmed(id)
             /\ kills'[k].method \in {"SIGKILL (forced)", "SIGTERM"}
             /\ kills'[k].method = "SIGKILL (forced)"
                  <=> (id \in Registered /\ processes[id].status = "running")
             /\ processes'[id].terminationSignal = <<kills'[k].method>>

\* a terminate call is inside its grace wait only after it fired the handle
C32_Waiting ==
  \A k \in DOMAIN kills :
    kills[k].pc = "grace" => (kills[k].id \in DOMAIN aborts /\ aborts[kills[k].id] > 0)

\* C32: terminate on a running process with a cancellation handle fires
\* the handle and waits GRACE_MS; when the wait is over it returns
\* success=true, the record is terminated with its end time set and its
\* eviction timer armed, and the method is 'SIGKILL (forced)' exactly when
\* the record was still running at the end of the wait, 'SIGTERM' otherwise.
C32_Terminate == []C32_Waiting /\ [][C32_Step]_vars

\* C32 witness: two terminate calls returned success, one with each
\* method: one found the record still running after its wait, the other
\* found that it had ended during the wait.
C32_Witness ==
  \E k1, k2 \in DOMAIN kills :
    /\ kills[k1].pc = "done" /\ kills[k1].success
    /\ kills[k2].pc = "done" /\ kills[k2].success
    /\ kills[k1].method = "SIGKILL (forced)"
    /\ kills[k2].method = "SIGTERM"
    /\ processes[kills[k1].id].status = "terminated"

C33_EndTimeWhenTerminal ==
  \A id \in Registered :
    /\ processes[id].endTime # <<>> <=> processes[id].status \in Terminal
    /\ processes[id].status = "running" => processes[id].exitCode = <<>>

C33_EndTimeKept ==
  \A id \in Registered :
    (processes[id].endTime # <<>> /\ id \in DOMAIN processes')
      => processes'[id].endTime = processes[id].endTime

\* C33: in every state a record has an end time exactly when its status is
\* completed, failed or terminated, and a running record has no exit code;
\* no step changes an end time that is set.
C33_EndTimeSetOnce == []C33_EndTimeWhenTerminal /\ [][C33_EndTimeKept]_vars

\* C34: of the terminate calls made on one running process, in whatever
\* order they start and return, at most one returns success=true.
C34_OneSuccessfulTerminate ==
  \A k1 \in DOMAIN kills : \A k2 \in DOMAIN kills :
    ( /\ kills[k1].id = kills[k2].id
      /\ kills[k1].pc = "done" /\ kills[k1].success
      /\ kills[k2].pc = "done" /\ kills[k2].success )
    => k1 = k2

\* the await of the result promise of a foreground run resumes in this step
C35_Settles == run.pc = "running" /\ run'.pc = "done" /\ ~run.background

C35_Step ==
  C35_Settles =>
    /\ run'.llm = "timeout" => ResultAborted(run, aborts)
    /\ ~ResultAborted(run, aborts) => run'.llm \in {"normal", "thrown"}

C35_Kept ==
  (run.pc = "done" /\ run.llm # "timeout") => run'.llm # "timeout"

\* C35: a foreground run returns the timeout result only when the result
\* the engine settled with is marked aborted; a run whose result is not
\* aborted returns the normal result, and the timer, cleared when the
\* result has settled, cannot turn it into a timeout afterwards: in
\* whichever order timer and exit come.
C35_TimeoutOnlyIfAborted == [][C35_Step /\ C35_Kept]_vars

\* C35 witness: the process exited at the moment its timeout elapsed and
\* its exit was handled before the timer callback: the result is not
\* aborted, the run returned the normal result and the timer never fired.
C35_Witness ==
  /\ StartedForeground
  /\ run.pc = "done"
  /\ run.llm = "normal"
  /\ now = run.expiry[1]
  /\ ~run.timerFired
  /\ run.timer = <<>>

\* C36: when a run call has returned, on whichever path (cancelled before
\* the start, background launch, normal completion, timeout, caller
\* cancellation, thrown error), its timeout timer is not armed and its
\* listener on the caller's signal is not attached.
C36_TornDownOnReturn ==
  run.pc = "done" => (run.timer = <<>> /\ ~run.listener)

\* every id that a record, a timer map entry or a pending timer carries
TimerIds ==
  Ids \cup DOMAIN processes \cup DOMAIN cleanupTimers
      \cup { timeouts[k].id : k \in DOMAIN timeouts }

C37_PendingIffTerminal ==
  \A id \in TimerIds :
    LET ended == id \in Registered /\ processes[id].status \in Terminal
    IN  /\ TimersOf(timeouts, id) # {} <=> ended
        /\ id \in DOMAIN cleanupTimers <=> ended

C37_Step ==
  \A id \in TimerIds :
    TimerFired(id) =>
      /\ id \in Registered
      /\ id \notin DOMAIN processes'
      /\ id \notin DOMAIN cleanupTimers'
      /\ TimersOf(timeouts', id) = {}

C38_Eventually ==
  \A id \in LaunchIds :
    (id \in Registered /\ processes[id].status \in Terminal) ~> (id \notin Registered)

\* the eviction timer of the id is replaced by a later one
Rescheduled(id) ==
  /\ id \in DOMAIN cleanupTimers
  /\ id \in DOMAIN cleanupTimers'
  /\ cleanupTimers'[id] # cleanupTimers[id]

C38_Step ==
  /\ \A id \in LaunchIds :
       Rescheduled(id) =>
         \/ results[id] = "pending" /\ results'[id] = "settled"
         \/ \E k \in DOMAIN kills :
              kills[k].id = id /\ kills[k].pc = "grace" /\ kills'[k].pc = "done"
  /\ \A id \in LaunchIds :
       (id \in DOMAIN results /\ id \notin Registered) => id \notin DOMAIN processes'
  /\ \A id \in LaunchIds :
       (ret'.op = "poll" /\ ret'.id = id /\ id \in DOMAIN results /\ id \notin Registered)
         => ret'.status = "not_found"

\* C38: with timers that fire when they are due, a record that has reached
\* a terminal state is eventually removed from the registry.  Its timer is
\* replaced only when its result promise settles (once) or when a
\* terminate call that started while it was running returns from its wait
\* (once per call); a removed record does not come back, and a poll for
\* it returns not_found.
C38_EventuallyEvicted == C38_Eventually /\ [][C38_Step]_vars

\* C38 witness: a record whose eviction was rescheduled (it completed
\* while terminate waited) has been removed, and a poll made after that
\* returned not_found.
C38_Witness ==
  \E id \in DOMAIN results :
    /\ KilledOk(id)
    /\ results[id] = "settled"
    /\ id \notin Registered
    /\ now >= GRACE_MS + CLEANUP_TIMEOUT_MS
    /\ ret.op = "poll" /\ ret.id = id /\ ret.status = "not_found"

\* the texts of a sequence of buffer entries
Texts(entries) == [i \in 1..Len(entries) |-> entries[i].text]

\* the last lines of a sequence of lines that the buffer bound admits
Bounded(lines) ==
  IF Len(lines) <= MAX_BUFFER_LINES THEN lines
  ELSE SubSeq(lines, Len(lines) - MAX_BUFFER_LINES + 1, Len(lines))

C39_Step ==
  \A id \in LaunchIds : \A output \in FrameChunks :
    ( /\ id \in Registered
      /\ processes[id].status \in Terminal
      /\ AddOutput(id, output, MAX_BUFFER_LINES + 1) )
    => /\ id \in DOMAIN processes'
       /\ processes'[id].status = processes[id].status
       /\ processes'[id].exitCode = processes[id].exitCode
       /\ processes'[id].endTime = processes[id].endTime
       /\ Texts(processes'[id].outputBuffer)
            = Bounded(Texts(Buffer(id)) \o Lines(output))
       /\ \A c \in DOMAIN Offsets(id) :
            LET offered == Texts(Offered(processes'[id], c))
                new == Bounded(Lines(output))
            IN  /\ Len(offered) >= Len(new)
                /\ SubSeq(offered, Len(offered) - Len(new) + 1, Len(offered)) = new

\* a poll of a record that has ended returns what the buffer holds past
\* the consumer's offset, and leaves the status as it is
C39_PollStep ==
  \A id \in LaunchIds :
    ( /\ id \in Registered
      /\ processes[id].status \in Terminal
      /\ GetNewOutput(id, "bash_output_tool", <<>>) )
    => /\ ret'.output = Offered(processes[id], "bash_output_tool")
       /\ ret'.status = processes[id].status
       /\ processes'[id].status = processes[id].status

\* C39: output delivered for a record that is completed, failed or
\* terminated and still in the registry is appended as for a running one:
\* the buffer becomes its old lines followed by the new ones, cut to the
\* buffer bound from the front; the new lines lie past every consumer's
\* offset, so the next poll returns them; status, exit code and end time
\* stay as they are.
C39_OutputAfterEnd == [][C39_Step /\ C39_PollStep]_vars

\* C39 witness: a line that was appended after the failure line of a
\* failed process (it has the higher append number) and evicted a line
\* from the full buffer was returned by a poll, and the record is still
\* failed.
C39_Witness ==
  /\ ret.op = "poll"
  /\ ret.id \in Registered
  /\ processes[ret.id].status = "failed"
  /\ Evicted(Buffer(ret.id)) > 0
  /\ Len(ret.output) > 0
  /\ ret.output[Len(ret.output)].text = <<"b">>
  /\ \E i \in DOMAIN Buffer(ret.id) :
       /\ Buffer(ret.id)[i].text = FailPrefix \o <<"b">>
       /\ Buffer(ret.id)[i].n < ret.output[Len(ret.output)].n

\* the root commands of the confirmation request that is pending
PendingRoots ==
  IF ret.op = "confirm" /\ ret.details # <<>>
  THEN { ret.details[1][i] : i \in DOMAIN ret.details[1] }
  ELSE {}

C40_Step ==
  /\ allowlist \subseteq allowlist'
  /\ allowlist' # allowlist =>
       /\ ret'.op = "confirmed"
       /\ ret'.outcome = "ProceedAlways"
       /\ allowlist' = allowlist \cup PendingRoots
  /\ ret'.op = "confirmed" =>
       /\ PendingRoots # {}
       /\ ret'.outcome = "ProceedAlways" =>
            (allowlist' = allowlist \cup PendingRoots /\ allowlist' # allowlist)
       /\ ret'.outcome # "ProceedAlways" => allowlist' = allowlist
  /\ (ret'.op = "confirm" /\ RootSet(ret'.command) \subseteq allowlist) =>
       ret'.details = <<>>

\* C40: the allowlist never loses a command; it changes only in the step
\* that answers the pending confirmation with ProceedAlways, which adds
\* the root commands that confirmation asked for and nothing else; any
\* other answer leaves it as it is; and the check of a command whose root
\* commands are all in the allowlist asks for no confirmation.
C40_ApprovalSet == [][C40_Step]_vars

\* C40 witness: after a ProceedAlways answer for a command with two root
\* commands, a later check of a command with those roots asked for
\* nothing.
C40_Witness ==
  /\ ret.op = "confirm"
  /\ ret.details = <<>>
  /\ Cardinality(RootSet(ret.command)) = 2
  /\ RootSet(ret.command) = allowlist

====
